---- MODULE Spec2Model ----
(***************************************************************************)
(* Model of the matplotlib render interceptor and chart-metadata pipeline   *)
(* of hack/code_run_python_wrapper.py.                                      *)
(*                                                                          *)
(* The specifications share the variables:                                  *)
(*   Spec      the interceptor: finder/loader installation, figures being   *)
(*             opened and closed, and the show hook (custom_show);          *)
(*   SpecMeta  extract_and_print_figure_metadata applied to one figure      *)
(*             drawn from a bounded set of figures.                         *)
(***************************************************************************)
EXTENDS Integers, Sequences, FiniteSets, TLC

VARIABLES
    plt_patched,        \* module global plt_patched
    processed_figures,  \* module global processed_figures (set of figure numbers)
    meta_path,          \* number of MatplotlibFinder instances on sys.meta_path
    installed,          \* whether matplotlib can be found by the standard finders
    pyplot,             \* matplotlib.pyplot in sys.modules: "absent" or "loaded"
    patch_specs,        \* lookups that returned a spec with MatplotlibLoader
    installs,           \* times exec_module replaced a module's show by custom_show
    lookup,             \* what the latest finder lookup did
    open_figs,          \* numbers of the figures pyplot holds open
    artifacts,          \* artifact lines written to stdout, per figure number
    call,               \* the hook invocation made by the latest step
    unseen,             \* open figures without an artifact since they were created
    fig_in,             \* SpecMeta: the figure given to the pipeline
    fig_out,            \* SpecMeta: what the pipeline did with it
    input,              \* the argument of the function a specification applies
    output              \* what that function returned or raised

vars == <<plt_patched, processed_figures, meta_path, installed, pyplot,
          patch_specs, installs, lookup, open_figs, artifacts, call, unseen,
          fig_in, fig_out, input, output>>

----------------------------------------------------------------------------
(* Bounds *)

MaxFig == 2          \* figure numbers the user program uses: 1..MaxFig
MaxAxes == 3         \* axes per figure
MaxFinders == 2      \* run_user_code calls (finders inserted)
MaxLines == 2        \* cap of the per-figure artifact line counter

(* The interpreter's recursion limit, scaled down. *)
RecursionLimit == 6

----------------------------------------------------------------------------
(* JSON-like Python values, tagged by their Python type.                    *)
(* A float is finite (c = "fin", value v) or nan / inf / ninf.              *)

JStr(s) == [k |-> "str", s |-> s]
JInt(n) == [k |-> "int", v |-> n]
JFloat(c, v) == [k |-> "float", c |-> c, v |-> v]
JFin(v) == JFloat("fin", v)
JNaN == JFloat("nan", 0)
JInf == JFloat("inf", 0)
JNegInf == JFloat("ninf", 0)
JNone == [k |-> "none"]
JList(items) == [k |-> "list", items |-> items]
JTuple(items) == [k |-> "tuple", items |-> items]
JDict(keys, vals) == [k |-> "dict", keys |-> keys, vals |-> vals]
EmptyDict == JDict(<<>>, <<>>)

Has(d, key) == \E i \in 1..Len(d.keys) : d.keys[i] = key
Get(d, key) == d.vals[CHOOSE i \in 1..Len(d.keys) : d.keys[i] = key]

(* d[key] = val *)
Put(d, key, val) ==
    IF Has(d, key)
    THEN JDict(d.keys, [i \in 1..Len(d.keys) |->
                          IF d.keys[i] = key THEN val ELSE d.vals[i]])
    ELSE JDict(Append(d.keys, key), Append(d.vals, val))

(* json_float_fix without the tuple case of line 505 *)
RECURSIVE json_float_fix_no_tuple(_)
json_float_fix_no_tuple(obj) ==
    IF obj.k = "float"
    THEN IF obj.c = "nan" \/ obj.c \in {"inf", "ninf"} THEN JFin(0) ELSE obj
    ELSE IF obj.k = "list"
    THEN JList([i \in 1..Len(obj.items) |-> json_float_fix_no_tuple(obj.items[i])])
    ELSE IF obj.k = "dict"
    THEN JDict(obj.keys,
               [i \in 1..Len(obj.vals) |-> json_float_fix_no_tuple(obj.vals[i])])
    ELSE obj

RECURSIVE json_float_fix(_)
json_float_fix(obj) ==
    IF obj.k = "float"
    THEN IF obj.c = "nan" \/ obj.c \in {"inf", "ninf"} THEN JFin(0) ELSE obj
    ELSE IF obj.k \in {"list", "tuple"}
    THEN JList([i \in 1..Len(obj.items) |-> json_float_fix(obj.items[i])])
    ELSE IF obj.k = "dict"
    THEN JDict(obj.keys, [i \in 1..Len(obj.vals) |-> json_float_fix(obj.vals[i])])
    ELSE obj

----------------------------------------------------------------------------
(* Figures as the pipeline sees them.                                       *)
(*                                                                          *)
(* An axes is described by what extract_and_print_figure_metadata reads     *)
(* from it: the colorbar test, title and labels, scales and ticks, the      *)
(* census of its children (scat: PathCollection, pathpatch: PathPatch,      *)
(* patch4: a PathPatch with >= 4 vertices, caps: Line2D with marker '_',    *)
(* med: 2-point solid unmarked Line2D, wedge: Wedge, solid: Line2D with     *)
(* linestyle '-', rect: Rectangle), what each type extractor does on it     *)
(* (ext: the elements it returns, or that it raises), and whether building  *)
(* its own image (re-render or crop) fails (render).                        *)

NoExt == [raises |-> FALSE, elems |-> <<>>]
Some(e) == [raises |-> FALSE, elems |-> e]
Raises == [raises |-> TRUE, elems |-> <<>>]

(* "w" in ax.get_title().lower(), over the titles of the model *)
TitleWords(t) ==
    CASE t = "Line Chart" -> {"line"}
      [] t = "Scatter Plot" -> {"scatter"}
      [] t = "Bar Chart" -> {"bar"}
      [] t = "Pie Chart (Distribution in %)" -> {"pie"}
      [] t = "Box and Whisker Plot" -> {"box", "whisker"}
      [] OTHER -> {}

(* re.search(r'\((.*?)\)', label), over the labels of the model *)
ParenMatch(label) ==
    CASE label = "X-axis (seconds)" -> [found |-> TRUE, group |-> "seconds"]
      [] label = "Values (count)" -> [found |-> TRUE, group |-> "count"]
      [] OTHER -> [found |-> FALSE, group |-> ""]

BaseAx ==
    [colorbar |-> FALSE, title |-> "", xlabel |-> "", ylabel |-> "",
     xscale |-> "linear", yscale |-> "linear",
     xticks |-> <<JFin(0), JFin(1)>>, yticks |-> <<JFin(0), JFin(5)>>,
     xticklabels |-> <<"0", "1">>, yticklabels |-> <<"0", "5">>,
     scat |-> FALSE, pathpatch |-> FALSE, patch4 |-> FALSE, caps |-> FALSE,
     med |-> FALSE, wedge |-> FALSE, solid |-> FALSE, rect |-> FALSE,
     ext |-> [scatter |-> NoExt, box |-> NoExt, pie |-> NoExt,
              line |-> NoExt, bar |-> NoExt],
     render |-> "ok"]

LineElement ==
    JDict(<<"label", "points">>,
          <<JStr("sin"), JList(<<JTuple(<<JFin(0), JNaN>>),
                                 JTuple(<<JInf, JNegInf>>)>>)>>)
ScatterElement ==
    JDict(<<"label", "points", "colors">>,
          <<JStr("Scatter 1"), JList(<<JList(<<JFin(1), JNegInf>>)>>),
            JList(<<JFin(3)>>)>>)
BarElement ==
    JDict(<<"label", "group", "value">>, <<JStr("A"), JStr("default"), JFin(40)>>)
PieElement ==
    JDict(<<"label", "angle", "radius">>, <<JStr("A"), JFin(90), JFin(1)>>)
BoxElement ==
    JDict(<<"label", "min", "first_quartile", "median", "third_quartile",
            "max", "outliers">>,
          <<JStr("1"), JFin(0), JFin(1), JFin(5), JFin(9), JFin(10),
            JList(<<JFin(12), JNaN>>)>>)

LineAx ==
    [BaseAx EXCEPT !.title = "Line Chart", !.xlabel = "X-axis (seconds)",
                   !.solid = TRUE, !.ext.line = Some(<<LineElement, LineElement>>)]
ScatterAx ==
    [BaseAx EXCEPT !.scat = TRUE, !.yscale = "log", !.yticks = <<JNaN, JFin(1)>>,
                   !.ext.scatter = Some(<<ScatterElement>>)]
BarAx ==
    [BaseAx EXCEPT !.title = "Bar Chart", !.ylabel = "Values (count)",
                   !.rect = TRUE, !.xticks = <<JStr("A")>>, !.xticklabels = <<"A">>,
                   !.ext.bar = Some(<<BarElement>>)]
BarAxRenderFails == [BarAx EXCEPT !.render = "fail"]
PieAx ==
    [BaseAx EXCEPT !.title = "Pie Chart (Distribution in %)", !.wedge = TRUE,
                   !.ext.pie = Some(<<PieElement>>)]
BoxAx ==
    [BaseAx EXCEPT !.title = "Box and Whisker Plot", !.pathpatch = TRUE,
                   !.patch4 = TRUE, !.caps = TRUE, !.med = TRUE, !.solid = TRUE,
                   !.ext.box = Some(<<BoxElement>>),
                   !.ext.line = Some(<<LineElement>>)]
BoxAxCropFails == [BoxAx EXCEPT !.render = "fail"]
(* a box whose whisker line has no data: min() of an empty sequence raises *)
BoxAxExtractRaises == [BoxAx EXCEPT !.ext.box = Raises]
ColorbarAx == [BaseAx EXCEPT !.colorbar = TRUE, !.ylabel = "Values (count)"]
EmptyAx == BaseAx

(* The axes of the model, by name. *)
AxesMenu ==
    {"line", "scatter", "bar", "bar_render_fails", "pie", "box", "box_crop_fails",
     "box_extract_raises", "colorbar", "empty"}

AxisOf(name) ==
    CASE name = "line" -> LineAx
      [] name = "scatter" -> ScatterAx
      [] name = "bar" -> BarAx
      [] name = "bar_render_fails" -> BarAxRenderFails
      [] name = "pie" -> PieAx
      [] name = "box" -> BoxAx
      [] name = "box_crop_fails" -> BoxAxCropFails
      [] name = "box_extract_raises" -> BoxAxExtractRaises
      [] name = "colorbar" -> ColorbarAx
      [] OTHER -> EmptyAx

SeqsUpTo(S, n) == UNION {[1..m -> S] : m \in 0..n}

(* fig.axes (each axes by its name) and fig.texts (the suptitle, when set, *)
(* is fig.texts[0])                                                         *)
FigureInputs ==
    {[axes |-> a, texts |-> t] :
        a \in SeqsUpTo(AxesMenu, MaxAxes), t \in {<<>>, <<"Overview">>}}

----------------------------------------------------------------------------
(* extract_and_print_figure_metadata *)

is_colorbar_axis(ax) == ax.colorbar

(* float(x) for x in the tick array; a str tick raises ValueError *)
TicksCoercible(ticks) == \A i \in 1..Len(ticks) : ticks[i].k \in {"float", "int"}
CoerceTicks(ticks) ==
    JList([i \in 1..Len(ticks) |->
             IF ticks[i].k = "int" THEN JFin(ticks[i].v) ELSE ticks[i]])
IndexRange(n) == JList([i \in 1..n |-> JInt(i - 1)])
StrList(ss) == JList([i \in 1..Len(ss) |-> JStr(ss[i])])

(* A dict built by assignments in order; an entry with set = FALSE stands   *)
(* for an assignment that is skipped.                                       *)
Entry(key, val, set) == [key |-> key, val |-> val, set |-> set]
MakeDict(entries) ==
    LET kept == SelectSeq(entries, LAMBDA e : e.set)
    IN  JDict([i \in 1..Len(kept) |-> kept[i].key],
              [i \in 1..Len(kept) |-> kept[i].val])

(* lines 538-591: title, labels, units, scales, ticks *)
subplot_metadata(ax) ==
    LET xm == ParenMatch(ax.xlabel)
        ym == ParenMatch(ax.ylabel)
        ok == TicksCoercible(ax.xticks) /\ TicksCoercible(ax.yticks)
    IN  << Entry("title", JStr(ax.title), ax.title # ""),
           Entry("x_label", JStr(ax.xlabel), ax.xlabel # ""),
           Entry("y_label", JStr(ax.ylabel), ax.ylabel # ""),
           Entry("x_unit", JStr(IF ax.xlabel # "" /\ xm.found
                                THEN xm.group ELSE "None"), TRUE),
           Entry("y_unit", JStr(IF ax.ylabel # "" /\ ym.found
                                THEN ym.group ELSE "None"), TRUE),
           Entry("x_scale", JStr(ax.xscale), TRUE),
           Entry("y_scale", JStr(ax.yscale), TRUE),
           Entry("x_ticks", IF ok THEN CoerceTicks(ax.xticks)
                            ELSE IndexRange(Len(ax.xticklabels)), TRUE),
           Entry("y_ticks", IF ok THEN CoerceTicks(ax.yticks)
                            ELSE IndexRange(Len(ax.yticklabels)), TRUE),
           Entry("x_tick_labels", StrList(ax.xticklabels), TRUE),
           Entry("y_tick_labels", StrList(ax.yticklabels), TRUE) >>

(* lines 593-701: chart type and elements of one axes.                      *)
(* Result: raised (an extractor raised), type, elements.                    *)
ExtractorRaised == [raised |-> TRUE, type |-> "unknown", elements |-> <<>>]
Typed(type, r) ==
    IF r.raises THEN ExtractorRaised
    ELSE [raised |-> FALSE, type |-> type, elements |-> r.elems]

is_box_plot(ax, words) ==
    \/ "box" \in words \/ "whisker" \in words
    \/ (ax.pathpatch /\ ax.caps)
    \/ (ax.pathpatch /\ ax.med)

(* lines 622-637: Rectangle children, else PathPatch children with >= 4 vertices *)
has_rectangles(ax) == ax.rect \/ (~ax.rect /\ ax.patch4)

(* lines 671-691: the if/elif chain *)
first_detection(ax, words) ==
    IF "scatter" \in words \/ ax.scat
      THEN Typed("scatter", ax.ext.scatter)
    ELSE IF is_box_plot(ax, words)
      THEN Typed("box_and_whisker", ax.ext.box)
    ELSE IF ax.wedge \/ "pie" \in words
      THEN Typed("pie", ax.ext.pie)
    ELSE IF (ax.solid /\ ~is_box_plot(ax, words)) \/ "line" \in words
      THEN Typed("line", ax.ext.line)
    ELSE IF (has_rectangles(ax) /\ ~is_box_plot(ax, words)) \/ "bar" \in words
      THEN Typed("bar", ax.ext.bar)
    ELSE Typed("unknown", NoExt)

(* lines 693-696: no elements but scatters: scatter extraction again *)
retry_scatter(ax, c) ==
    IF ~c.raised /\ Len(c.elements) = 0 /\ ax.scat
    THEN Typed("scatter", ax.ext.scatter) ELSE c

(* lines 698-701: still no elements and the title says line: line extraction *)
retry_line(ax, words, c) ==
    IF ~c.raised /\ Len(c.elements) = 0 /\ "line" \in words
    THEN Typed("line", ax.ext.line) ELSE c

detect_with_words(ax, words) ==
    retry_line(ax, words, retry_scatter(ax, first_detection(ax, words)))

chart_type_and_elements(ax) == detect_with_words(ax, TitleWords(ax.title))

(* "elements" assigned unconditionally *)
subplot_data_always_elements(ax, c) ==
    MakeDict(subplot_metadata(ax) \o
             << Entry("type", JStr(c.type), TRUE),
                Entry("elements", JList(c.elements), TRUE) >>)

(* lines 704-706: "elements" is assigned only when there are any *)
subplot_data_of(ax, c) ==
    MakeDict(subplot_metadata(ax) \o
             << Entry("type", JStr(c.type), TRUE),
                Entry("elements", JList(c.elements), Len(c.elements) > 0) >>)

FigurePng == JStr("figure.png")
SubplotPng == JStr("subplot.png")
CropPng == JStr("crop.png")

(* lines 514-762: the loop over fig.axes, from axes i on.                   *)
(* Result: raised (an exception left the loop), subplots (the records       *)
(* appended so far), leaked (temporary figures left open).                  *)
RECURSIVE process_axes(_, _, _)

(* lines 708-762, for a subplot of type c.type with record subplot_data *)
subplot_png_step(axes, i, subplots, ax, c, subplot_data) ==
    IF Len(axes) > 1
    THEN IF c.type = "box_and_whisker"
         THEN \* lines 724-746: crop inside try/except; both paths close the
              \* temporary figure, the failing one skips subplots.append
              IF ax.render = "ok"
              THEN process_axes(axes, i + 1,
                                Append(subplots, Put(subplot_data, "png", CropPng)))
              ELSE process_axes(axes, i + 1, subplots)
         ELSE \* lines 711-759: no try/except; an exception leaves subplot_fig
              \* open and leaves the function
              IF ax.render = "ok"
              THEN process_axes(axes, i + 1,
                                Append(subplots, Put(subplot_data, "png", SubplotPng)))
              ELSE [raised |-> TRUE, subplots |-> subplots, leaked |-> 1]
    ELSE process_axes(axes, i + 1, Append(subplots, subplot_data))

(* lines 593-706, after the type and elements c were determined *)
subplot_type_step(axes, i, subplots, ax, c) ==
    IF c.raised
    THEN [raised |-> TRUE, subplots |-> subplots, leaked |-> 0]
    ELSE subplot_png_step(axes, i, subplots, ax, c, subplot_data_of(ax, c))

(* lines 516-536: colorbar axes are skipped *)
axis_step(axes, i, subplots, ax) ==
    IF is_colorbar_axis(ax)
    THEN process_axes(axes, i + 1, subplots)
    ELSE subplot_type_step(axes, i, subplots, ax, chart_type_and_elements(ax))

process_axes(axes, i, subplots) ==
    IF i > Len(axes)
    THEN [raised |-> FALSE, subplots |-> subplots, leaked |-> 0]
    ELSE axis_step(axes, i, subplots, AxisOf(axes[i]))

(* lines 766-784 *)
actual_plot_axes(fig) ==
    Cardinality({i \in 1..Len(fig.axes) : ~is_colorbar_axis(AxisOf(fig.axes[i]))})

FirstOf(S) == CHOOSE j \in S : \A m \in S : j <= m
KnownSubplots(subplots) ==
    {j \in 1..Len(subplots) : Get(subplots[j], "type") # JStr("unknown")}

(* lines 796-807: the first subplot whose type is not unknown, else the     *)
(* first subplot, else a fresh record                                       *)
single_metadata(subplots, known) ==
    Put(IF known # {} THEN subplots[FirstOf(known)]
        ELSE IF Len(subplots) > 0 THEN subplots[1]
        ELSE JDict(<<"type">>, <<JStr("unknown")>>),
        "png", FigurePng)

(* lines 786-807: the final metadata structure *)
final_metadata(fig, subplots) ==
    IF actual_plot_axes(fig) > 1
    THEN JDict(<<"title", "type", "png", "subplots">>,
               <<IF Len(fig.texts) > 0 THEN JStr(fig.texts[1]) ELSE JNone,
                 JStr("composite_chart"), FigurePng, JList(subplots)>>)
    ELSE single_metadata(subplots, KnownSubplots(subplots))

assemble_from(fig, r) ==
    IF r.raised
    THEN [raised |-> TRUE, metadata |-> EmptyDict, leaked |-> r.leaked]
    ELSE [raised |-> FALSE, metadata |-> final_metadata(fig, r.subplots),
          leaked |-> 0]

(* lines 511-807: the metadata before json_float_fix; raised when an        *)
(* exception left the function before                                       *)
assemble(fig) == assemble_from(fig, process_axes(fig.axes, 1, <<>>))

(* lines 809-823 *)
print_metadata(a) ==
    IF a.raised
    THEN [raised |-> TRUE, printed |-> <<>>, leaked |-> a.leaked]
    ELSE [raised |-> FALSE,
          printed |-> <<JDict(<<"type", "value">>,
                              <<JStr("chart"), json_float_fix(a.metadata)>>)>>,
          leaked |-> 0]

(* The whole function. Result: raised, printed (the dtn_artifact lines      *)
(* written, as the JSON value of each), leaked.                             *)
extract_and_print_figure_metadata(fig) == print_metadata(assemble(fig))

NoResult == [raised |-> FALSE, printed |-> <<>>, leaked |-> 0, done |-> FALSE]

----------------------------------------------------------------------------
(* MatplotlibFinder and MatplotlibLoader *)

PyplotName == "matplotlib.pyplot"
ModuleNames == {"matplotlib.pyplot", "matplotlib"}

NoLookup == [name |-> "", spec |-> "none", depth |-> 0, error |-> FALSE]

(* A lookup result: spec is "none", "original" (the standard loader) or     *)
(* "patching" (MatplotlibLoader); patched is plt_patched afterwards; depth  *)
(* is the deepest nesting of MatplotlibFinder.find_spec frames; error is a  *)
(* RecursionError.                                                          *)
RECURSIVE MatplotlibFinder_find_spec(_, _, _)
RECURSIVE meta_path_walk(_, _, _, _)

(* The import system (and importlib.util.find_spec) asking the finders of   *)
(* sys.meta_path in order, from finder j on: the MatplotlibFinder instances *)
(* sit in front of the standard finders.                                    *)
meta_path_walk(fullname, j, patched, depth) ==
    IF j > meta_path
    THEN [spec |-> IF installed THEN "original" ELSE "none",
          patched |-> patched, depth |-> depth - 1, error |-> FALSE]
    ELSE LET r == MatplotlibFinder_find_spec(fullname, patched, depth)
         IN  IF r.error \/ r.spec # "none"
             THEN r
             ELSE LET rest == meta_path_walk(fullname, j + 1, r.patched, depth)
                  IN  [rest EXCEPT !.depth = IF r.depth > @ THEN r.depth ELSE @]

(* find_spec without "plt_patched = True" *)
find_spec_never_marks(fullname, patched, depth) ==
    IF depth > RecursionLimit
    THEN [spec |-> "none", patched |-> patched, depth |-> depth, error |-> TRUE]
    ELSE IF fullname = PyplotName /\ ~patched
    THEN LET original_spec == meta_path_walk(fullname, 1, patched, depth + 1)
         IN  IF original_spec.error \/ original_spec.spec = "none"
             THEN [original_spec EXCEPT !.spec = "none"]
             ELSE [original_spec EXCEPT !.spec = "patching"]
    ELSE [spec |-> "none", patched |-> patched, depth |-> depth, error |-> FALSE]

(* lines 829-849; depth is the nesting depth of this frame *)
MatplotlibFinder_find_spec(fullname, patched, depth) ==
    IF depth > RecursionLimit
    THEN [spec |-> "none", patched |-> patched, depth |-> depth, error |-> TRUE]
    ELSE IF fullname = PyplotName /\ ~patched
    THEN LET original_spec == meta_path_walk(fullname, 1, TRUE, depth + 1)
         IN  IF original_spec.error \/ original_spec.spec = "none"
             THEN [original_spec EXCEPT !.spec = "none"]
             ELSE [original_spec EXCEPT !.spec = "patching"]
    ELSE [spec |-> "none", patched |-> patched, depth |-> depth, error |-> FALSE]

----------------------------------------------------------------------------
(* custom_show *)

MaxNum == MaxFig + 1     \* figure numbers, temporary figures included

Max(S) == CHOOSE x \in S : \A y \in S : y <= x
Min2(a, b) == IF a < b THEN a ELSE b

(* module.get_fignums(): the open figure numbers in ascending order *)
RECURSIVE get_fignums(_)
get_fignums(S) ==
    IF S = {} THEN <<>>
    ELSE LET m == CHOOSE x \in S : \A y \in S : x <= y
         IN  <<m>> \o get_fignums(S \ {m})

(* What the figures hold when the hook runs. *)
SingleFig == [axes |-> <<"line">>, texts |-> <<>>]
RenderFailsFig == [axes |-> <<"line", "bar_render_fails">>, texts |-> <<>>]
ExtractRaisesFig == [axes |-> <<"box_extract_raises">>, texts |-> <<>>]
ShowFigures == {SingleFig, RenderFailsFig, ExtractRaisesFig}

(* extract_and_print_figure_metadata on each of them *)
ShowOutcome == [f \in ShowFigures |-> extract_and_print_figure_metadata(f)]

ShowArgs == {[args |-> <<>>, kwargs |-> <<>>],
             [args |-> <<"all">>, kwargs |-> <<"block=False">>]}
ShowReturns == {"None", "value"}

NoCall == [kind |-> "none", args |-> [args |-> <<>>, kwargs |-> <<>>],
           entry_open |-> {}, entry_processed |-> {}, emitted |-> <<>>,
           original |-> <<>>, returned |-> <<>>]

(* lines 879-886: the loop over fig_nums; st carries processed_figures, the *)
(* open figures, the lines written and the figures emitted in this call.    *)
(* A temporary figure left open gets the next free number.                  *)
RECURSIVE show_loop(_, _, _)

LeaveOpen(open, leaked) == IF leaked > 0 THEN open \cup {Max(open) + 1} ELSE open

(* the figure is never added to processed_figures *)
show_step_never_marks(nums, contents, st, r) ==
    IF r.raised
    THEN [st EXCEPT !.raised = TRUE, !.open = LeaveOpen(@, r.leaked)]
    ELSE show_loop(Tail(nums), contents,
                   [st EXCEPT !.lines[Head(nums)] = Min2(@ + Len(r.printed), MaxLines),
                              !.emitted = Append(@, Head(nums))])

(* lines 881-886, r being what extract_and_print_figure_metadata did *)
show_step(nums, contents, st, r) ==
    IF r.raised
    THEN [st EXCEPT !.raised = TRUE, !.open = LeaveOpen(@, r.leaked)]
    ELSE show_loop(Tail(nums), contents,
                   [st EXCEPT !.lines[Head(nums)] = Min2(@ + Len(r.printed), MaxLines),
                              !.emitted = Append(@, Head(nums)),
                              !.processed = @ \cup {Head(nums)}])

show_loop(nums, contents, st) ==
    IF nums = <<>> THEN st
    ELSE IF Head(nums) \in st.processed
    THEN show_loop(Tail(nums), contents, st)
    ELSE show_step(nums, contents, st, ShowOutcome[contents[Head(nums)]])

(* original_show called with arguments a at a point where processed_figures *)
(* and the written lines are as in st; it returns ret.                      *)
OriginalCall(a, ret, st) ==
    [args |-> a, ret |-> ret, processed |-> st.processed, lines |-> st.lines]

ShowEntry ==
    [processed |-> processed_figures, open |-> open_figs, lines |-> artifacts,
     emitted |-> <<>>, raised |-> FALSE]

CallRecord(a, st, original, returned) ==
    [kind |-> IF st.raised THEN "raised" ELSE "returned", args |-> a,
     entry_open |-> open_figs, entry_processed |-> processed_figures,
     emitted |-> st.emitted, original |-> original, returned |-> returned]

(* original_show() called without the arguments, its result dropped *)
show_return_drops(a, ret, st) ==
    [st |-> st,
     call |-> IF st.raised THEN CallRecord(a, st, <<>>, <<>>)
              ELSE CallRecord(a, st,
                              <<OriginalCall([args |-> <<>>, kwargs |-> <<>>], ret, st)>>,
                              <<"None">>)]

(* line 889: the call of original_show and the return, st being the state  *)
(* the loop left; reached only when the loop did not raise                  *)
show_return(a, ret, st) ==
    [st |-> st,
     call |-> IF st.raised THEN CallRecord(a, st, <<>>, <<>>)
              ELSE CallRecord(a, st, <<OriginalCall(a, ret, st)>>, <<ret>>)]

(* lines 872-889. Result: the state after the call and the call's record:   *)
(* kind is "returned" or "raised", original holds the calls of              *)
(* original_show, returned the value returned.                              *)
custom_show(a, contents, ret) ==
    show_return(a, ret, show_loop(get_fignums(open_figs), contents, ShowEntry))

----------------------------------------------------------------------------
(* The interceptor as a state machine *)

EmptyFig == [axes |-> <<>>, texts |-> <<>>]
NoInput == [fn |-> "none"]
NoOutput == [done |-> FALSE]

Init ==
    /\ plt_patched = FALSE
    /\ processed_figures = {}
    /\ meta_path = 0
    /\ installed \in BOOLEAN
    /\ pyplot = "absent"
    /\ patch_specs = 0
    /\ installs = 0
    /\ lookup = NoLookup
    /\ open_figs = {}
    /\ artifacts = [n \in 1..MaxNum |-> 0]
    /\ call = NoCall
    /\ unseen = {}
    /\ fig_in = EmptyFig
    /\ fig_out = NoResult
    /\ input = NoInput
    /\ output = NoOutput

(* run_user_code, line 916: one more finder in front of sys.meta_path *)
RunUserCode ==
    /\ meta_path < MaxFinders
    /\ meta_path' = meta_path + 1
    /\ lookup' = NoLookup
    /\ call' = NoCall
    /\ UNCHANGED <<plt_patched, processed_figures, installed, pyplot, patch_specs,
                   installs, open_figs, artifacts, unseen, fig_in, fig_out, input,
                   output>>

(* The user program imports a module that is not in sys.modules: the        *)
(* finders are asked, and the module is created and executed by the loader  *)
(* of the spec found (MatplotlibLoader.exec_module, lines 862-892, replaces *)
(* show after the original loader has run).                                 *)
Import(fullname) ==
    /\ fullname = PyplotName => pyplot = "absent"
    /\ LET r == meta_path_walk(fullname, 1, plt_patched, 1)
       IN  /\ plt_patched' = r.patched
           /\ lookup' = [name |-> fullname, spec |-> r.spec, depth |-> r.depth,
                         error |-> r.error]
           /\ patch_specs' = IF r.spec = "patching" /\ ~r.error
                             THEN Min2(patch_specs + 1, MaxLines) ELSE patch_specs
           /\ installs' = IF r.spec = "patching" /\ ~r.error
                          THEN Min2(installs + 1, MaxLines) ELSE installs
           /\ pyplot' = IF fullname = PyplotName /\ r.spec # "none" /\ ~r.error
                        THEN "loaded" ELSE pyplot
    /\ call' = NoCall
    /\ UNCHANGED <<processed_figures, meta_path, installed, open_figs, artifacts,
                   unseen, fig_in, fig_out, input, output>>

(* The finders are asked for a module that is then not executed             *)
(* (importlib.util.find_spec called by the user program).                   *)
FindOnly(fullname) ==
    /\ fullname = PyplotName => pyplot = "absent"
    /\ LET r == meta_path_walk(fullname, 1, plt_patched, 1)
       IN  /\ plt_patched' = r.patched
           /\ lookup' = [name |-> fullname, spec |-> r.spec, depth |-> r.depth,
                         error |-> r.error]
           /\ patch_specs' = IF r.spec = "patching" /\ ~r.error
                             THEN Min2(patch_specs + 1, MaxLines) ELSE patch_specs
    /\ call' = NoCall
    /\ UNCHANGED <<processed_figures, meta_path, installed, pyplot, installs,
                   open_figs, artifacts, unseen, fig_in, fig_out, input, output>>

(* del sys.modules['matplotlib.pyplot']: the next import looks it up again  *)
Unload ==
    /\ pyplot = "loaded"
    /\ pyplot' = "absent"
    /\ lookup' = NoLookup
    /\ call' = NoCall
    /\ UNCHANGED <<plt_patched, processed_figures, meta_path, installed, patch_specs,
                   installs, open_figs, artifacts, unseen, fig_in, fig_out, input,
                   output>>

(* plt.figure(n) for a number that is not open; plt.figure() is n = max + 1 *)
NewFigure(n) ==
    /\ pyplot = "loaded"
    /\ n \notin open_figs
    /\ open_figs' = open_figs \cup {n}
    /\ unseen' = unseen \cup {n}
    /\ lookup' = NoLookup
    /\ call' = NoCall
    /\ UNCHANGED <<plt_patched, processed_figures, meta_path, installed, pyplot,
                   patch_specs, installs, artifacts, fig_in, fig_out, input, output>>

(* plt.close(n) *)
CloseFigure(n) ==
    /\ n \in open_figs
    /\ open_figs' = open_figs \ {n}
    /\ unseen' = unseen \ {n}
    /\ lookup' = NoLookup
    /\ call' = NoCall
    /\ UNCHANGED <<plt_patched, processed_figures, meta_path, installed, pyplot,
                   patch_specs, installs, artifacts, fig_in, fig_out, input, output>>

(* The user program calls the show of a module MatplotlibLoader patched.    *)
Show ==
    /\ installs > 0
    /\ \E a \in ShowArgs, ret \in ShowReturns,
          contents \in [open_figs \ processed_figures -> ShowFigures] :
          LET c == custom_show(a, contents, ret)
          IN  /\ c.st.open \subseteq 1..MaxNum
              /\ processed_figures' = c.st.processed
              /\ open_figs' = c.st.open
              /\ artifacts' = c.st.lines
              /\ call' = c.call
              /\ unseen' = (unseen \cup (c.st.open \ open_figs))
                               \ {c.st.emitted[i] : i \in 1..Len(c.st.emitted)}
    /\ lookup' = NoLookup
    /\ UNCHANGED <<plt_patched, meta_path, installed, pyplot, patch_specs, installs,
                   fig_in, fig_out, input, output>>

Next ==
    \/ RunUserCode
    \/ \E fullname \in ModuleNames : Import(fullname)
    \/ \E fullname \in ModuleNames : FindOnly(fullname)
    \/ Unload
    \/ \E n \in 1..MaxFig : NewFigure(n)
    \/ \E n \in 1..MaxNum : CloseFigure(n)
    \/ Show

Spec == Init /\ [][Next]_vars

----------------------------------------------------------------------------
(* The pipeline applied to one figure *)

InitMeta ==
    /\ plt_patched = FALSE
    /\ processed_figures = {}
    /\ meta_path = 0
    /\ installed = TRUE
    /\ pyplot = "absent"
    /\ patch_specs = 0
    /\ installs = 0
    /\ lookup = NoLookup
    /\ open_figs = {}
    /\ artifacts = [n \in 1..MaxNum |-> 0]
    /\ call = NoCall
    /\ unseen = {}
    /\ fig_in \in FigureInputs
    /\ fig_out = NoResult
    /\ input = NoInput
    /\ output = NoOutput

Extract ==
    /\ ~fig_out.done
    /\ LET r == extract_and_print_figure_metadata(fig_in)
       IN  fig_out' = [raised |-> r.raised, printed |-> r.printed,
                       leaked |-> r.leaked, done |-> TRUE]
    /\ UNCHANGED <<plt_patched, processed_figures, meta_path, installed, pyplot,
                   patch_specs, installs, lookup, open_figs, artifacts, call, unseen,
                   fig_in, input, output>>

NextMeta == Extract

SpecMeta == InitMeta /\ [][NextMeta]_vars

----------------------------------------------------------------------------
(* Properties of the interceptor (Spec) *)

(* C1: at most one artifact line is ever written per figure number; an      *)
(* invocation of the hook that returns leaves every figure that was open    *)
(* processed, and an invocation that finds every open figure already        *)
(* processed (a second invocation on an unchanged set) writes nothing.      *)
C1_OneArtifactPerFigure ==
    /\ \A n \in 1..MaxNum : artifacts[n] <= 1
    /\ call.kind = "returned" => call.entry_open \subseteq processed_figures
    /\ (call.kind # "none" /\ call.entry_open \subseteq call.entry_processed)
          => call.emitted = <<>>

C1_SecondCallOnProcessedFigures ==
    /\ call.kind = "returned"
    /\ Cardinality(call.entry_open) >= 2
    /\ call.entry_open \subseteq call.entry_processed
    /\ \A n \in call.entry_open : artifacts[n] = 1
    /\ call.emitted = <<>>

(* C2: in every invocation of the hook, every figure that was open and not  *)
(* yet processed has its artifact written and is in processed_figures when  *)
(* original_show is called, original_show is called exactly once, and no    *)
(* artifact is written after that call.                                     *)
C2_AllEmittedThenOriginalOnce ==
    call.kind # "none" =>
        /\ Len(call.original) = 1
        /\ \A n \in call.entry_open \ call.entry_processed :
              /\ n \in call.original[1].processed
              /\ call.original[1].lines[n] >= 1
        /\ call.original[1].lines = artifacts

(* C3: original_show receives the arguments the hook was called with, and   *)
(* the hook returns the value original_show returned, however many figures  *)
(* the invocation processed.                                                *)
C3_ArgumentsAndResultPassThrough ==
    /\ \A i \in 1..Len(call.original) : call.original[i].args = call.args
    /\ call.kind = "returned" =>
          /\ Len(call.original) = 1
          /\ call.returned = <<call.original[1].ret>>

C3_ReturnedAfterProcessingMany ==
    /\ call.kind = "returned"
    /\ Len(call.emitted) >= 2
    /\ call.args.args # <<>>
    /\ call.returned = <<"value">>

(* C4: show is replaced by custom_show at most once per process: at most    *)
(* one lookup ever returns the patching loader, whatever the number of      *)
(* finders and lookups, and the finder's nested find_spec call goes one     *)
(* level deep and no deeper (no RecursionError).                            *)
C4_HookInstalledAtMostOnce ==
    /\ installs <= 1
    /\ patch_specs <= 1
    /\ installs <= patch_specs
    /\ patch_specs = 1 => plt_patched
    /\ lookup.depth <= 2
    /\ ~lookup.error
    /\ lookup.spec = "patching" => lookup.depth = 2

C4_LaterLookupGetsOriginalLoader ==
    /\ installs = 1
    /\ meta_path >= 2
    /\ pyplot = "loaded"
    /\ lookup.name = PyplotName
    /\ lookup.spec = "original"
    /\ lookup.depth = 1

----------------------------------------------------------------------------
(* Properties of the pipeline (SpecMeta) *)

Emitted == fig_out.done /\ Len(fig_out.printed) > 0
EmittedRecord == Get(fig_out.printed[1], "value")
Subplots(v) == Get(v, "subplots").items

(* the data (non-colorbar) axes of a figure, in figure order *)
DataAxes(fig) == SelectSeq(fig.axes, LAMBDA a : ~is_colorbar_axis(AxisOf(a)))
NoExtractorRaises(fig) ==
    \A i \in 1..Len(fig.axes) :
        is_colorbar_axis(AxisOf(fig.axes[i]))
        \/ ~chart_type_and_elements(AxisOf(fig.axes[i])).raised

(* the record of a data axes as it is emitted, with png p *)
SubplotRecord(a, p) ==
    json_float_fix(Put(subplot_data_of(AxisOf(a), chart_type_and_elements(AxisOf(a))),
                       "png", p))
own_png(a) ==
    IF chart_type_and_elements(AxisOf(a)).type = "box_and_whisker"
    THEN CropPng ELSE SubplotPng

(* C5: the function never raises and writes exactly one artifact line for   *)
(* the figure, also when a type extractor fails; the subplot whose          *)
(* extraction failed is in it without elements.                             *)
C5_AlwaysOneArtifact ==
    fig_out.done =>
        /\ ~fig_out.raised
        /\ Len(fig_out.printed) = 1

(* C6: in a figure with several data subplots (whose extractors succeed),   *)
(* a failing re-render or crop of a subplot is caught: the artifact is      *)
(* written, every data subplot has its record in it, and a record lacks     *)
(* png exactly when that subplot's re-render failed.                        *)
C6_RenderFailureKeepsRecord ==
    (fig_out.done /\ NoExtractorRaises(fig_in) /\ Len(DataAxes(fig_in)) >= 2) =>
        /\ ~fig_out.raised
        /\ Len(fig_out.printed) = 1
        /\ Has(EmittedRecord, "subplots")
        /\ Len(Subplots(EmittedRecord)) = Len(DataAxes(fig_in))
        /\ \A j \in 1..Len(DataAxes(fig_in)) :
              Has(Subplots(EmittedRecord)[j], "png")
                  <=> AxisOf(DataAxes(fig_in)[j]).render = "ok"

(* C7: the record emitted for a figure with more than one data subplot has  *)
(* the composite type (spelled composite_chart by the code) and its         *)
(* subplots list holds exactly the records of the data subplots, one each,  *)
(* in figure order; colorbar axes are not in it.                            *)
C7_CompositeHoldsEveryDataSubplot ==
    (Emitted /\ Len(DataAxes(fig_in)) > 1) =>
        /\ Get(EmittedRecord, "type") = JStr("composite_chart")
        /\ Has(EmittedRecord, "subplots")
        /\ Len(Subplots(EmittedRecord)) = Len(DataAxes(fig_in))
        /\ \A j \in 1..Len(DataAxes(fig_in)) :
              Subplots(EmittedRecord)[j]
                  = SubplotRecord(DataAxes(fig_in)[j], own_png(DataAxes(fig_in)[j]))

(* C8: the record emitted for a figure with at most one data subplot is     *)
(* that subplot's own record with the whole-figure snapshot as png, and     *)
(* {type: unknown, png} only when the figure has no data subplot.           *)
C8_SingleIsTheSubplotRecord ==
    (Emitted /\ Len(DataAxes(fig_in)) <= 1) =>
        IF Len(DataAxes(fig_in)) = 1
        THEN EmittedRecord = SubplotRecord(DataAxes(fig_in)[1], FigurePng)
        ELSE EmittedRecord = JDict(<<"type", "png">>, <<JStr("unknown"), FigurePng>>)

(* C9: every emitted record has png at the top level, has subplots exactly  *)
(* when its type is the composite type, and has elements, at the top level  *)
(* and in every subplot record, only as a non-empty list.                   *)
ElementsNonEmpty(d) ==
    Has(d, "elements") =>
        /\ Get(d, "elements").k = "list"
        /\ Len(Get(d, "elements").items) > 0

C9_RecordShape ==
    Emitted =>
        /\ Has(EmittedRecord, "png")
        /\ Has(EmittedRecord, "subplots")
              <=> Get(EmittedRecord, "type") = JStr("composite_chart")
        /\ ElementsNonEmpty(EmittedRecord)
        /\ Has(EmittedRecord, "subplots") =>
              \A j \in 1..Len(Subplots(EmittedRecord)) :
                  ElementsNonEmpty(Subplots(EmittedRecord)[j])

C9_CompositeWithAndWithoutElements ==
    /\ Emitted
    /\ Has(EmittedRecord, "subplots")
    /\ \E j \in 1..Len(Subplots(EmittedRecord)) :
          Has(Subplots(EmittedRecord)[j], "elements")
    /\ \E j \in 1..Len(Subplots(EmittedRecord)) :
          ~Has(Subplots(EmittedRecord)[j], "elements")

(* C10: no float of an emitted artifact, at any depth of dicts, lists and   *)
(* tuples, is NaN or infinite; against the metadata before sanitizing,      *)
(* each such float is 0.0 and every other value, every key and every        *)
(* sequence length is the same.                                             *)
RECURSIVE NoBadFloat(_)
NoBadFloat(v) ==
    IF v.k = "float" THEN v.c = "fin"
    ELSE IF v.k \in {"list", "tuple"}
    THEN \A i \in 1..Len(v.items) : NoBadFloat(v.items[i])
    ELSE IF v.k = "dict"
    THEN \A i \in 1..Len(v.vals) : NoBadFloat(v.vals[i])
    ELSE TRUE

RECURSIVE SanitizedFrom(_, _)
SanitizedFrom(before, after) ==
    IF before.k = "float"
    THEN after = (IF before.c = "fin" THEN before ELSE JFin(0))
    ELSE IF before.k \in {"list", "tuple"}
    THEN /\ after.k = "list"
         /\ Len(after.items) = Len(before.items)
         /\ \A i \in 1..Len(before.items) :
               SanitizedFrom(before.items[i], after.items[i])
    ELSE IF before.k = "dict"
    THEN /\ after.k = "dict"
         /\ after.keys = before.keys
         /\ \A i \in 1..Len(before.vals) :
               SanitizedFrom(before.vals[i], after.vals[i])
    ELSE after = before

C10_NoNonFiniteFloat ==
    Emitted =>
        /\ NoBadFloat(fig_out.printed[1])
        /\ SanitizedFrom(assemble(fig_in).metadata, EmittedRecord)

C10_NonFiniteInNestedRecord ==
    /\ Emitted
    /\ Has(EmittedRecord, "subplots")
    /\ ~NoBadFloat(assemble(fig_in).metadata)
    /\ \E j \in 1..Len(Subplots(EmittedRecord)) :
          Get(Subplots(EmittedRecord)[j], "type") = JStr("line")

----------------------------------------------------------------------------
(* The interceptor at rest: the state of the specifications that apply one  *)
(* function to an input.                                                    *)

Idle ==
    /\ plt_patched = FALSE
    /\ processed_figures = {}
    /\ meta_path = 0
    /\ installed = TRUE
    /\ pyplot = "absent"
    /\ patch_specs = 0
    /\ installs = 0
    /\ lookup = NoLookup
    /\ open_figs = {}
    /\ artifacts = [n \in 1..MaxNum |-> 0]
    /\ call = NoCall
    /\ unseen = {}
    /\ fig_in = EmptyFig
    /\ fig_out = NoResult

idle_vars == <<plt_patched, processed_figures, meta_path, installed, pyplot,
               patch_specs, installs, lookup, open_figs, artifacts, call, unseen,
               fig_in, fig_out>>

----------------------------------------------------------------------------
(* examples/python/exec-command/test.py: get_type_of_chart                  *)

MaxChildren == 5     \* children of the axes given to get_type_of_chart

(* The classes of the children and their base classes (isinstance).        *)
Bases(cls) ==
    CASE cls = "Line2D" -> {"Line2D", "Artist"}
      [] cls = "PathPatch" -> {"PathPatch", "Patch", "Artist"}
      [] cls = "Rectangle" -> {"Rectangle", "Patch", "Artist"}
      [] cls = "Wedge" -> {"Wedge", "Patch", "Artist"}
      [] cls = "Shadow" -> {"Shadow", "Patch", "Artist"}
      [] cls = "Polygon" -> {"Polygon", "Patch", "Artist"}
      [] cls = "PathCollection" -> {"PathCollection", "Collection", "Artist"}
      [] cls = "Text" -> {"Text", "Artist"}
      [] OTHER -> {"Artist"}

isinstance(obj, classes) == Bases(obj.cls) \cap classes # {}

Line2D(xdata, ydata) == [cls |-> "Line2D", xdata |-> xdata, ydata |-> ydata]
Child(cls) == [cls |-> cls, xdata |-> <<>>, ydata |-> <<>>]

(* The children of the model: the segments (0,0)-(0,5), (0,4)-(3,4) and     *)
(* (0,0)-(3,4), a three-point vertical line, a line without data, and one   *)
(* child of each other class.                                               *)
ChildMenu ==
    << Line2D(<<0, 0>>, <<0, 5>>), Line2D(<<0, 3>>, <<4, 4>>),
       Line2D(<<0, 3>>, <<0, 4>>), Line2D(<<0, 0, 0>>, <<0, 1, 2>>),
       Line2D(<<>>, <<>>),
       Child("PathPatch"), Child("PathCollection"), Child("Rectangle"),
       Child("Wedge"), Child("Text"), Child("Shadow"), Child("Polygon") >>

(* ax._children, up to n children, listed in the order of ChildMenu *)
RECURSIVE ChildOrders(_)
ChildOrders(n) ==
    IF n = 0 THEN {<<>>}
    ELSE UNION {{s} \cup (IF Len(s) = n - 1
                          THEN {Append(s, k) :
                                  k \in (IF s = <<>> THEN 1 ELSE s[Len(s)])
                                        .. Len(ChildMenu)}
                          ELSE {}) : s \in ChildOrders(n - 1)}

ChildrenOf(order) == [i \in 1..Len(order) |-> ChildMenu[order[i]]]

ChartInputs ==
    {[fn |-> "get_type_of_chart", children |-> ChildrenOf(o)] :
        o \in ChildOrders(MaxChildren)}

(* both coordinates of the two ends equal *)
is_grid_line_both_equal(line) ==
    IF Len(line.xdata) # 2 THEN FALSE
    ELSE IF Len(line.ydata) # 2 THEN FALSE
    ELSE line.xdata[1] = line.xdata[2] /\ line.ydata[1] = line.ydata[2]

(* lines 83-95 *)
is_grid_line(line) ==
    IF Len(line.xdata) # 2 THEN FALSE
    ELSE IF Len(line.ydata) # 2 THEN FALSE
    ELSE line.xdata[1] = line.xdata[2] \/ line.ydata[1] = line.ydata[2]

all_instances(objects, classes) ==
    \A i \in 1..Len(objects) : isinstance(objects[i], classes)

(* lines 116-128: the rules applied after the grid lines were removed *)
classify_filtered(objects) ==
    IF all_instances(objects, {"PathCollection"}) THEN "scatter"
    ELSE IF all_instances(objects, {"Rectangle"}) THEN "bar"
    ELSE IF all_instances(objects, {"Wedge"}) THEN "pie"
    ELSE "unknown"

(* lines 108-114 *)
without_grid_lines(objects) ==
    SelectSeq(objects, LAMBDA obj : ~(isinstance(obj, {"Line2D"}) /\ is_grid_line(obj)))

(* the box rule tried before the line rule *)
classify_objects_box_first(objects) ==
    IF all_instances(objects, {"PathPatch", "Line2D"}) THEN "box_and_whisker"
    ELSE IF all_instances(objects, {"Line2D"}) THEN "line"
    ELSE classify_filtered(without_grid_lines(objects))

(* lines 101-128 *)
classify_objects(objects) ==
    IF all_instances(objects, {"Line2D"}) THEN "line"
    ELSE IF all_instances(objects, {"PathPatch", "Line2D"}) THEN "box_and_whisker"
    ELSE classify_filtered(without_grid_lines(objects))

(* only Text is dropped *)
drop_text_only(children) ==
    SelectSeq(children, LAMBDA obj : ~isinstance(obj, {"Text"}))

(* line 99 *)
drop_text_and_shadow(children) ==
    SelectSeq(children, LAMBDA obj : ~isinstance(obj, {"Text"})
                                     /\ ~isinstance(obj, {"Shadow"}))

get_type_of_chart(children) == classify_objects(drop_text_and_shadow(children))

InitChart ==
    /\ Idle
    /\ input \in ChartInputs
    /\ output = NoOutput

Classify ==
    /\ input.fn = "get_type_of_chart"
    /\ ~output.done
    /\ output' = [done |-> TRUE, raised |-> FALSE,
                  type |-> get_type_of_chart(input.children)]
    /\ UNCHANGED <<idle_vars, input>>

NextChart == Classify

SpecChart == InitChart /\ [][NextChart]_vars

----------------------------------------------------------------------------
(* Properties of get_type_of_chart (SpecChart) *)

Classified == output.done /\ input.fn = "get_type_of_chart"

(* the primitives of the census that are neither text nor shadow *)
Core(children) ==
    SelectSeq(children, LAMBDA c : c.cls \notin {"Text", "Shadow"})
Kinds(objects) == {objects[i].cls : i \in 1..Len(objects)}
CountOf(objects, cls) == Cardinality({i \in 1..Len(objects) : objects[i].cls = cls})

(* a Line with exactly two points, on one vertical or one horizontal *)
AxisAlignedSegment(c) ==
    /\ c.cls = "Line2D"
    /\ Len(c.xdata) = 2 /\ Len(c.ydata) = 2
    /\ (c.xdata[1] = c.xdata[2] \/ c.ydata[1] = c.ydata[2])

DataKinds(objects) ==
    {objects[i].cls : i \in {j \in 1..Len(objects) : ~AxisAlignedSegment(objects[j])}}

(* C11: on the census without text and shadow primitives the rules apply   *)
(* in order, first match wins: only Lines is line; otherwise only           *)
(* ComplexPatches and Lines is box_and_whisker; otherwise, grid lines       *)
(* removed, only PointClouds is scatter, else only Rectangles is bar, else  *)
(* only Wedges is pie.                                                      *)
C11_RulesInOrder ==
    Classified =>
        LET K == Kinds(Core(input.children))
            D == DataKinds(Core(input.children))
        IN  IF K \subseteq {"Line2D"} THEN output.type = "line"
            ELSE IF K \subseteq {"PathPatch", "Line2D"}
                 THEN output.type = "box_and_whisker"
            ELSE IF D \subseteq {"PathCollection"} THEN output.type = "scatter"
            ELSE IF D \subseteq {"Rectangle"} THEN output.type = "bar"
            ELSE IF D \subseteq {"Wedge"} THEN output.type = "pie"
            ELSE TRUE

(* one ComplexPatch and two Lines were classified as box_and_whisker *)
C11_PatchAndTwoLinesIsBox ==
    /\ Classified
    /\ Len(input.children) = 3
    /\ CountOf(input.children, "PathPatch") = 1
    /\ CountOf(input.children, "Line2D") = 2
    /\ output.type = "box_and_whisker"

(* C12: for the empty census and for every census that matches none of the *)
(* rules the classifier returns unknown, and it never raises.               *)
C12_EmptyOrUnmatchedIsUnknown ==
    Classified =>
        LET K == Kinds(Core(input.children))
            D == DataKinds(Core(input.children))
        IN  /\ ~output.raised
            /\ ( \/ Core(input.children) = <<>>
                 \/ ( /\ ~(K \subseteq {"Line2D"})
                      /\ ~(K \subseteq {"PathPatch", "Line2D"})
                      /\ ~(D \subseteq {"PathCollection"})
                      /\ ~(D \subseteq {"Rectangle"})
                      /\ ~(D \subseteq {"Wedge"}) ) )
               => output.type = "unknown"

(* C13: an axis-aligned two-point Line is removed before the scatter, bar   *)
(* and pie rules and every other Line is kept, so PointClouds (Rectangles,  *)
(* Wedges) together with Lines are scatter (bar, pie) exactly when every    *)
(* Line is such a segment; Lines alone, even when all are such segments,    *)
(* are line.                                                                *)
C13_GridLinesRemovedAfterLineRules ==
    Classified =>
        LET core == Core(input.children)
            K == Kinds(core)
            lines_all_grid == \A i \in 1..Len(core) :
                                 core[i].cls = "Line2D" => AxisAlignedSegment(core[i])
        IN  /\ K \in {{"PathCollection", "Line2D"}}
                 => (output.type = "scatter" <=> lines_all_grid)
            /\ K \in {{"Rectangle", "Line2D"}}
                 => (output.type = "bar" <=> lines_all_grid)
            /\ K \in {{"Wedge", "Line2D"}}
                 => (output.type = "pie" <=> lines_all_grid)
            /\ K = {"Line2D"} => output.type = "line"

(* PointClouds with the segment (0,0)-(0,5) were classified as scatter *)
C13_PointCloudsWithVerticalSegment ==
    /\ Classified
    /\ Kinds(input.children) = {"PathCollection", "Line2D"}
    /\ \E i \in 1..Len(input.children) :
          input.children[i] = Line2D(<<0, 0>>, <<0, 5>>)
    /\ output.type = "scatter"

InsertAt(s, i, e) == SubSeq(s, 1, i) \o <<e>> \o SubSeq(s, i + 1, Len(s))
RemoveAt(s, i) == SubSeq(s, 1, i - 1) \o SubSeq(s, i + 1, Len(s))

(* C17: the type depends only on the primitives that are neither text nor  *)
(* shadow: adding a TextLabel or a shadow anywhere in the census, or        *)
(* removing one from it, leaves the type unchanged.                         *)
C17_TextAndShadowDoNotMatter ==
    Classified =>
        /\ \A i \in 0..Len(input.children), cls \in {"Text", "Shadow"} :
              get_type_of_chart(InsertAt(input.children, i, Child(cls))) = output.type
        /\ \A i \in 1..Len(input.children) :
              input.children[i].cls \in {"Text", "Shadow"}
                 => get_type_of_chart(RemoveAt(input.children, i)) = output.type

(* Rectangles with a text and a shadow among them were classified as bar *)
C17_BarsWithTextAndShadow ==
    /\ Classified
    /\ Kinds(input.children) = {"Rectangle", "Text", "Shadow"}
    /\ output.type = "bar"

----------------------------------------------------------------------------
(* extract_bar_chart_data                                                   *)
(*                                                                          *)
(* Heights and values are counted in units of 0.00001, so that 1.0 is       *)
(* OneBar and the tolerance 0.0001 of line 317 is BarTolerance.             *)

MaxBars == 2         \* Rectangle children, and tick labels, of the axes
OneBar == 100000
BarTolerance == 10

Abs(n) == IF n < 0 THEN -n ELSE n

startswith(s, prefix) ==
    Len(s) >= Len(prefix) /\ SubSeq(s, 1, Len(prefix)) = prefix

(* re.search of line 286: the text between the first two single quotes *)
QuotePositions(s) == {i \in 1..Len(s) : SubSeq(s, i, i) = "'"}
SmallestOf(S) == CHOOSE m \in S : \A n \in S : m <= n
quoted_search(s) ==
    IF Cardinality(QuotePositions(s)) < 2 THEN [found |-> FALSE, group |-> ""]
    ELSE LET a == SmallestOf(QuotePositions(s))
             b == SmallestOf(QuotePositions(s) \ {a})
         IN  [found |-> TRUE, group |-> SubSeq(s, a + 1, b - 1)]

Rect(height, label) == [height |-> height, label |-> label]
(* heights 0, 0.9998, 0.99995, 1.0 and 40; labels as bar() and the user set them *)
RectMenu ==
    {Rect(h, l) : h \in {0, 99980, 99995, OneBar, 40 * OneBar},
                  l \in {"_nolegend_", "revenue"}}
TickLabelMenu == {"A", "Barcelona", "Text(0, 0, 'Q1')"}
(* a PathPatch child: number of vertices, extent of the vertices, label *)
BarPatch == [nverts |-> 5, width |-> 80000, height |-> OneBar, label |-> ""]

BarInputs ==
    {[fn |-> "extract_bar_chart_data", rects |-> r, patches |-> p, xticklabels |-> t] :
        r \in SeqsUpTo(RectMenu, MaxBars), p \in {<<>>, <<BarPatch>>},
        t \in SeqsUpTo(TickLabelMenu, MaxBars)}

(* lines 237-270: the Rectangle children of positive height, else the       *)
(* PathPatch children with at least 4 vertices and a positive extent        *)
bars_of(rects, patches) ==
    IF SelectSeq(rects, LAMBDA r : r.height > 0) # <<>>
    THEN SelectSeq(rects, LAMBDA r : r.height > 0)
    ELSE LET like == SelectSeq(patches, LAMBDA q : q.nverts >= 4 /\ q.width > 0
                                                     /\ q.height > 0)
         IN  [i \in 1..Len(like) |-> Rect(like[i].height, like[i].label)]

auto_label(idx) == "Bar " \o ToString(idx + 1)

(* lines 276-291 *)
bar_label(idx, xticklabels) ==
    IF idx < Len(xticklabels)
    THEN IF startswith(xticklabels[idx + 1], "Text(")
         THEN IF quoted_search(xticklabels[idx + 1]).found
              THEN quoted_search(xticklabels[idx + 1]).group
              ELSE auto_label(idx)
         ELSE xticklabels[idx + 1]
    ELSE auto_label(idx)

(* lines 294-296 *)
bar_group(label) ==
    IF label = "" \/ startswith(label, "_") THEN "default" ELSE label

(* lines 273-308 *)
raw_elements(bars, xticklabels) ==
    [i \in 1..Len(bars) |->
        [label |-> bar_label(i - 1, xticklabels),
         group |-> bar_group(bars[i].label),
         value |-> bars[i].height]]

(* lines 316-321 *)
is_artifact(elem) ==
    /\ Abs(elem.value - OneBar) < BarTolerance
    /\ startswith(elem.label, "Bar")
    /\ elem.group = "default"

(* lines 313-326 *)
filter_artifacts(raw) == SelectSeq(raw, LAMBDA elem : ~is_artifact(elem))

extract_bar_chart_data(rects, patches, xticklabels) ==
    filter_artifacts(raw_elements(bars_of(rects, patches), xticklabels))

InitBar ==
    /\ Idle
    /\ input \in BarInputs
    /\ output = NoOutput

ExtractBars ==
    /\ input.fn = "extract_bar_chart_data"
    /\ ~output.done
    /\ output' = [done |-> TRUE, raised |-> FALSE,
                  elements |-> extract_bar_chart_data(input.rects, input.patches,
                                                      input.xticklabels)]
    /\ UNCHANGED <<idle_vars, input>>

NextBar == ExtractBars

SpecBar == InitBar /\ [][NextBar]_vars

----------------------------------------------------------------------------
(* Properties of extract_bar_chart_data (SpecBar) *)

BarsExtracted == output.done /\ input.fn = "extract_bar_chart_data"

IsBarN(label) == \E n \in 1..(MaxBars + 1) : label = "Bar " \o ToString(n)

(* what the claim calls a discarded bar *)
ArtifactBar(elem) ==
    /\ Abs(elem.value - OneBar) < BarTolerance
    /\ IsBarN(elem.label)
    /\ elem.group = "default"

(* C14: a bar is discarded if and only if its value is within 0.0001 of     *)
(* 1.0, its label is an auto-generated "Bar n" label and its group is       *)
(* "default"; every other bar is kept, in the original order.               *)
C14_OnlyArtifactBarsDropped ==
    BarsExtracted =>
        output.elements =
            SelectSeq(raw_elements(bars_of(input.rects, input.patches),
                                   input.xticklabels),
                      LAMBDA elem : ~ArtifactBar(elem))

----------------------------------------------------------------------------
(* extract_box_plot_data                                                    *)

MaxBoxes == 2        \* PathPatch children of the axes

(* the y-coordinates of the vertices of a box path *)
BoxPathMenu ==
    { <<0, 1, 5, 9, 10>>, <<10, 9, 5, 1, 0, 0, 5>>, <<0, 1, 5, 9, 10, 12>>,
      <<0, 10, 10, 0, 0>> }

(* A Line2D child: what the extractor reads of it (linestyle, marker,       *)
(* color, ydata) and, for the properties, the box that boxplot drew it for  *)
(* (box, counted from 0) and as what (role).                                *)
BoxLine(box, role, linestyle, marker, color, ydata) ==
    [box |-> box, role |-> role, linestyle |-> linestyle, marker |-> marker,
     color |-> color, ydata |-> ydata]
Whisker(box, ydata) == BoxLine(box, "whisker", "-", "", "blue", ydata)
Median(box, ydata) == BoxLine(box, "median", "-", "", "orange", ydata)
Flier(box, ydata) == BoxLine(box, "flier", "None", "o", "blue", ydata)

(* the Line2D children: none; the whiskers, median line and fliers of one   *)
(* box; two whiskers without data; two whiskers and fliers without data;    *)
(* the lines of two boxes, box after box as boxplot adds them               *)
BoxLinesMenu ==
    { <<>>,
      << Whisker(0, <<0, 4>>), Whisker(0, <<8, 12>>), Median(0, <<4, 4>>),
         Flier(0, <<16, 20>>) >>,
      << Whisker(0, <<>>), Whisker(0, <<>>) >>,
      << Whisker(0, <<4, 8>>), Whisker(0, <<12, 16>>), Flier(0, <<>>) >>,
      << Whisker(0, <<0, 4>>), Whisker(0, <<8, 12>>), Median(0, <<4, 4>>),
         Flier(0, <<16, 20>>),
         Whisker(1, <<20, 24>>), Whisker(1, <<28, 32>>), Median(1, <<24, 24>>),
         Flier(1, <<40>>) >> }

BoxInputs ==
    {[fn |-> "extract_box_plot_data", boxes |-> b, lines |-> l, xticklabels |-> t] :
        b \in SeqsUpTo(BoxPathMenu, MaxBoxes), l \in BoxLinesMenu,
        t \in {<<>>, <<"1">>}}

(* lines 35-42 *)
whiskers_of(lines) == SelectSeq(lines, LAMBDA c : c.linestyle = "-")
medians_of(lines) ==
    SelectSeq(lines, LAMBDA c : c.linestyle = "-" /\ c.color \in {"orange", "red"})
fliers_of(lines) == SelectSeq(lines, LAMBDA c : c.marker = "o")

SeqRange(ys) == {ys[i] : i \in 1..Len(ys)}
SeqMin(ys) == CHOOSE m \in SeqRange(ys) : \A v \in SeqRange(ys) : m <= v
SeqMax(ys) == CHOOSE m \in SeqRange(ys) : \A v \in SeqRange(ys) : m >= v
RECURSIVE SeqSum(_)
SeqSum(ys) == IF ys = <<>> THEN 0 ELSE ys[1] + SeqSum(Tail(ys))

RECURSIVE sorted(_)
(* sorted(S) of a set of numbers *)
sorted(S) ==
    IF S = {} THEN <<>>
    ELSE LET m == CHOOSE v \in S : \A u \in S : v <= u
         IN  <<m>> \o sorted(S \ {m})

RECURSIVE insert_sorted(_, _)
insert_sorted(ys, v) ==
    IF ys = <<>> THEN <<v>>
    ELSE IF v <= ys[1] THEN <<v>> \o ys
    ELSE <<ys[1]>> \o insert_sorted(Tail(ys), v)

RECURSIVE sorted_y_keeps_duplicates(_)
(* sorted(y_values), the duplicates kept *)
sorted_y_keeps_duplicates(y_values) ==
    IF y_values = <<>> THEN <<>>
    ELSE insert_sorted(sorted_y_keeps_duplicates(Tail(y_values)), y_values[1])

(* line 53: sorted(set(y_values)) *)
sorted_y_of(y_values) == sorted(SeqRange(y_values))

box_label(idx, xticklabels) ==
    IF idx < Len(xticklabels) THEN xticklabels[idx + 1]
    ELSE "Box " \o ToString(idx + 1)

BoxElementOf(label, ymin, q1, med, q3, ymax) ==
    [label |-> label, min |-> ymin, first_quartile |-> q1, median |-> med,
     third_quartile |-> q3, max |-> ymax, outliers |-> <<>>]

(* lines 90-98 *)
element_from_path(idx, sorted_y, xticklabels) ==
    BoxElementOf(box_label(idx, xticklabels), sorted_y[1], sorted_y[2],
                 sorted_y[3], sorted_y[4], sorted_y[5])

(* lines 66-85; the divisions are exact on the values of the model *)
element_from_lines(idx, y_min, y_max, median_value, xticklabels) ==
    BoxElementOf(box_label(idx, xticklabels), y_min,
                 y_min + (median_value - y_min) \div 2, median_value,
                 median_value + (y_max - median_value) \div 2, y_max)

(* lines 59-87: fewer than 5 distinct values. Result: what (skip, raise or  *)
(* element), and the element.                                               *)
NoElement == BoxElementOf("", 0, 0, 0, 0, 0)
fallback_element(idx, whiskers, medians, xticklabels) ==
    IF ~(idx < Len(whiskers) \div 2) THEN [what |-> "skip", element |-> NoElement]
    ELSE IF whiskers[idx * 2 + 1].ydata = <<>> \/ whiskers[idx * 2 + 2].ydata = <<>>
         THEN [what |-> "raise", element |-> NoElement]
    ELSE IF idx < Len(medians) /\ medians[idx + 1].ydata = <<>>
         THEN [what |-> "raise", element |-> NoElement]
    ELSE [what |-> "element",
          element |->
             element_from_lines(
                idx, SeqMin(whiskers[idx * 2 + 1].ydata),
                SeqMax(whiskers[idx * 2 + 2].ydata),
                IF idx < Len(medians)
                THEN SeqSum(medians[idx + 1].ydata) \div Len(medians[idx + 1].ydata)
                ELSE 0,
                xticklabels)]

(* lines 53-98 *)
box_element(idx, sorted_y, whiskers, medians, xticklabels) ==
    IF Len(sorted_y) < 5
    THEN fallback_element(idx, whiskers, medians, xticklabels)
    ELSE [what |-> "element", element |-> element_from_path(idx, sorted_y, xticklabels)]

(* lines 101-106: the data of the first flier line that has any *)
with_outliers(element, fliers) ==
    LET having == SelectSeq(fliers, LAMBDA f : f.ydata # <<>>)
    IN  IF having = <<>> THEN element
        ELSE [element EXCEPT !.outliers = having[1].ydata]

RECURSIVE box_loop(_, _, _, _, _)
box_loop_step(boxes, idx, lines, xticklabels, elements, r) ==
    IF r.what = "raise" THEN [raised |-> TRUE, elements |-> <<>>]
    ELSE IF r.what = "skip"
         THEN box_loop(boxes, idx + 1, lines, xticklabels, elements)
    ELSE box_loop(boxes, idx + 1, lines, xticklabels,
                  Append(elements, with_outliers(r.element, fliers_of(lines))))

(* lines 45-110 *)
box_loop(boxes, idx, lines, xticklabels, elements) ==
    IF idx >= Len(boxes) THEN [raised |-> FALSE, elements |-> elements]
    ELSE box_loop_step(boxes, idx, lines, xticklabels, elements,
                       box_element(idx, sorted_y_of(boxes[idx + 1]),
                                   whiskers_of(lines), medians_of(lines),
                                   xticklabels))

extract_box_plot_data(boxes, lines, xticklabels) ==
    box_loop(boxes, 0, lines, xticklabels, <<>>)

InitBox ==
    /\ Idle
    /\ input \in BoxInputs
    /\ output = NoOutput

ExtractBoxes ==
    /\ input.fn = "extract_box_plot_data"
    /\ ~output.done
    /\ LET r == extract_box_plot_data(input.boxes, input.lines, input.xticklabels)
       IN  output' = [done |-> TRUE, raised |-> r.raised, elements |-> r.elements]
    /\ UNCHANGED <<idle_vars, input>>

NextBox == ExtractBoxes

SpecBox == InitBox /\ [][NextBox]_vars

----------------------------------------------------------------------------
(* Properties of extract_box_plot_data (SpecBox) *)

BoxesExtracted == output.done /\ input.fn = "extract_box_plot_data"

DistinctY(i) == {input.boxes[i][k] : k \in 1..Len(input.boxes[i])}
(* the k-th smallest member of S *)
KthSmallest(S, k) == CHOOSE v \in S : Cardinality({u \in S : u < v}) = k - 1
(* the box is not passed over: it has 5 distinct values or a pair of whiskers *)
YieldsElement(i) ==
    \/ Cardinality(DistinctY(i)) >= 5
    \/ i - 1 < Len(whiskers_of(input.lines)) \div 2
(* the position of the element of box i among the elements *)
ElementIndex(i) == Cardinality({j \in 1..i : YieldsElement(j)})

(* C15: for every box patch with at least 5 distinct y-coordinates the      *)
(* element has min, first_quartile, median, third_quartile and max equal to *)
(* the 1st to 5th smallest distinct y-values, whatever the order of the     *)
(* vertices and their duplicates; when every patch of the axes is such a    *)
(* patch the extraction does not raise.                                     *)
C15_FiveSmallestDistinct ==
    BoxesExtracted =>
        /\ (\A i \in 1..Len(input.boxes) : Cardinality(DistinctY(i)) >= 5)
              => ~output.raised
        /\ ~output.raised =>
              \A i \in 1..Len(input.boxes) :
                 Cardinality(DistinctY(i)) >= 5 =>
                    LET el == output.elements[ElementIndex(i)]
                    IN  /\ el.min = KthSmallest(DistinctY(i), 1)
                        /\ el.first_quartile = KthSmallest(DistinctY(i), 2)
                        /\ el.median = KthSmallest(DistinctY(i), 3)
                        /\ el.third_quartile = KthSmallest(DistinctY(i), 4)
                        /\ el.max = KthSmallest(DistinctY(i), 5)

(* a path with unordered and duplicated vertices, after a box that was      *)
(* passed over, gave 0, 1, 5, 9, 10 *)
C15_UnorderedDuplicatedVertices ==
    /\ BoxesExtracted /\ ~output.raised
    /\ Len(input.boxes) = 2
    /\ input.boxes[1] = <<0, 10, 10, 0, 0>>
    /\ input.boxes[2] = <<10, 9, 5, 1, 0, 0, 5>>
    /\ Len(output.elements) = 1
    /\ output.elements[1].min = 0 /\ output.elements[1].first_quartile = 1
    /\ output.elements[1].median = 5 /\ output.elements[1].third_quartile = 9
    /\ output.elements[1].max = 10

----------------------------------------------------------------------------
(* The harness: the handler of exceptions of the __main__ block             *)

MaxFrames == 4       \* traceback entries below the frame of the __main__ block

UserFile == "<user_code>"
(* co_filename of a traceback entry: the harness itself, the user program,  *)
(* a library module                                                         *)
FrameFiles == {"wrapper", UserFile, "lib"}

(* exception classes: one built from a message, one whose constructor       *)
(* takes five arguments                                                     *)
ExcTypes == {"ValueError", "UnicodeDecodeError"}
ConstructibleFromMessage(exc_type) == exc_type # "UnicodeDecodeError"

(* the exception caught at line 935: its traceback starts with the entry of *)
(* the __main__ block and goes down to the frame that raised                *)
MainInputs ==
    {[fn |-> "__main__", exc_type |-> t, message |-> "boom", tb |-> <<"wrapper">> \o f] :
        t \in ExcTypes, f \in SeqsUpTo(FrameFiles, MaxFrames)}

(* lines 940-945: the positions of the entries of the user program *)
filtered_tb(tb) == {i \in 1..Len(tb) : tb[i] = UserFile}

LargestOf(S) == CHOOSE m \in S : \A n \in S : m >= n

(* lines 949-951: print_exception walks the entries from filtered_tb[-1]    *)
(* along tb_next                                                            *)
printed_entries(tb) == SubSeq(tb, LargestOf(filtered_tb(tb)), Len(tb))

(* line 955: exc_type(str(exc_value)) *)
reraised(exc_type, message) ==
    IF ConstructibleFromMessage(exc_type)
    THEN [exc_type |-> exc_type, message |-> message]
    ELSE [exc_type |-> "TypeError", message |-> "function takes exactly 5 arguments"]

NoException == [exc_type |-> "", message |-> ""]

(* lines 935-957 *)
main_except(exc) ==
    IF filtered_tb(exc.tb) # {}
    THEN [done |-> TRUE, printed |-> printed_entries(exc.tb), exit_status |-> 1,
          raised |-> FALSE, exception |-> NoException]
    ELSE [done |-> TRUE, printed |-> <<>>, exit_status |-> 1,
          raised |-> TRUE, exception |-> reraised(exc.exc_type, exc.message)]

InitMain ==
    /\ Idle
    /\ input \in MainInputs
    /\ output = NoOutput

HandleException ==
    /\ input.fn = "__main__"
    /\ ~output.done
    /\ output' = main_except(input)
    /\ UNCHANGED <<idle_vars, input>>

NextMain == HandleException

SpecMain == InitMain /\ [][NextMain]_vars

----------------------------------------------------------------------------
(* Properties of the harness (SpecMain) *)

(* C16: when the traceback has an entry of the user program, the harness    *)
(* prints exactly the entries of the user program, all of them and in       *)
(* order, and exits with status 1; when it has none, an exception of the    *)
(* original type with the original message is raised.                       *)
C16_TracebackTrimmedToUserFrames ==
    (output.done /\ input.fn = "__main__") =>
        IF \E i \in 1..Len(input.tb) : input.tb[i] = UserFile
        THEN /\ ~output.raised
             /\ output.printed = SelectSeq(input.tb, LAMBDA f : f = UserFile)
             /\ output.exit_status = 1
        ELSE /\ output.raised
             /\ output.exception.exc_type = input.exc_type
             /\ output.exception.message = input.message

----------------------------------------------------------------------------
(* The type detection of extract_and_print_figure_metadata (lines 593-701)  *)
(* on one axes, under each title of the model                               *)

TitleMenu ==
    {"", "Line Chart", "Scatter Plot", "Bar Chart", "Pie Chart (Distribution in %)",
     "Box and Whisker Plot"}

DetectInputs ==
    {[fn |-> "detect", ax |-> a, title |-> t] : a \in AxesMenu, t \in TitleMenu}

(* ax.set_title(title) *)
Titled(ax, title) == [ax EXCEPT !.title = title]

InitDetect ==
    /\ Idle
    /\ input \in DetectInputs
    /\ output = NoOutput

Detect ==
    /\ input.fn = "detect"
    /\ ~output.done
    /\ LET c == chart_type_and_elements(Titled(AxisOf(input.ax), input.title))
       IN  output' = [done |-> TRUE, raised |-> c.raised, type |-> c.type,
                      elements |-> c.elements]
    /\ UNCHANGED <<idle_vars, input>>

NextDetect == Detect

SpecDetect == InitDetect /\ [][NextDetect]_vars

----------------------------------------------------------------------------
(* Properties of the type detection (SpecDetect) *)

(* what the census of the axes gives when no title is set *)
FromPrimitivesAlone == detect_with_words(AxisOf(input.ax), {})

(* C18: the title is a signal of last resort: whenever the primitives       *)
(* alone give a type other than unknown with elements, that type is the     *)
(* type of the subplot whatever its title says.                             *)
C18_TitleOnlyAsLastResort ==
    ( /\ output.done /\ input.fn = "detect"
      /\ ~FromPrimitivesAlone.raised
      /\ FromPrimitivesAlone.type # "unknown"
      /\ FromPrimitivesAlone.elements # <<>> )
    => (~output.raised /\ output.type = FromPrimitivesAlone.type)

----------------------------------------------------------------------------
(* extract_scatter_plot_data                                                *)

MaxPoints == 2       \* offsets of a PathCollection

(* offsets.tolist(): pairs of floats; a masked coordinate is None *)
PointMenu ==
    { <<JFin(1), JFin(2)>>, <<JNaN, JFin(2)>>, <<JFin(3), JNaN>>,
      <<JFin(1), JInf>>, <<JNegInf, JFin(4)>>, <<JNone, JFin(3)>> }

(* get_array(): None, or the values mapped to colours *)
NoArray == [set |-> FALSE, values |-> <<>>]
ArrayMenu ==
    {NoArray} \cup {[set |-> TRUE, values |-> v] :
                      v \in SeqsUpTo({JFin(3), JNaN}, MaxPoints + 1)}

Cloud(offsets, array, label) == [offsets |-> offsets, array |-> array, label |-> label]
EmptyCloud == Cloud(<<>>, NoArray, "_child0")

(* the PathCollection children: one collection, alone or after a collection *)
(* without offsets                                                          *)
ScatterInputs ==
    {[fn |-> "extract_scatter_plot_data", scatters |-> pre \o <<Cloud(o, a, l)>>] :
        pre \in {<<>>, <<EmptyCloud>>}, o \in SeqsUpTo(PointMenu, MaxPoints),
        a \in ArrayMenu, l \in {"_child1", "data"}}

isnan(x) == x.k = "float" /\ x.c = "nan"

(* lines 165-167 *)
valid_point(point) ==
    /\ point[1] # JNone /\ point[2] # JNone
    /\ ~isnan(point[1]) /\ ~isnan(point[2])

(* lines 161-171 *)
valid_points(offsets) ==
    LET kept == SelectSeq(offsets, valid_point)
    IN  [i \in 1..Len(kept) |-> JList(kept[i])]

(* lines 195-200 *)
color_value(c) == IF c # JNone /\ ~isnan(c) THEN c ELSE JFin(0)
colors_of(values) == [i \in 1..Len(values) |-> color_value(values[i])]

(* the colours as they are *)
fit_colors_unadjusted(colors, n) == colors

(* lines 214-223: truncate to, or extend with 0.0 up to, the number of points *)
fit_colors(colors, n) ==
    IF Len(colors) = n THEN colors
    ELSE IF Len(colors) > n THEN SubSeq(colors, 1, n)
    ELSE colors \o [i \in 1..(n - Len(colors)) |-> JFin(0)]

(* lines 203-206 *)
scatter_label(idx, label) ==
    IF startswith(label, "_") THEN "Scatter " \o ToString(idx + 1) ELSE label

(* lines 174-225: the element of a collection that has valid points *)
scatter_element(idx, scatter, points) ==
    MakeDict(<< Entry("label", JStr(scatter_label(idx, scatter.label)), TRUE),
                Entry("points", JList(points), TRUE),
                Entry("colors",
                      JList(fit_colors(colors_of(scatter.array.values), Len(points))),
                      scatter.array.set /\ Len(scatter.array.values) > 0) >>)

RECURSIVE scatter_loop(_, _, _)
scatter_step(scatters, idx, elements, points) ==
    scatter_loop(scatters, idx + 1,
                 IF Len(scatters[idx + 1].offsets) > 0 /\ points # <<>>
                 THEN Append(elements, scatter_element(idx, scatters[idx + 1], points))
                 ELSE elements)

(* lines 152-227 *)
scatter_loop(scatters, idx, elements) ==
    IF idx >= Len(scatters) THEN elements
    ELSE scatter_step(scatters, idx, elements, valid_points(scatters[idx + 1].offsets))

extract_scatter_plot_data(scatters) == scatter_loop(scatters, 0, <<>>)

InitScatter ==
    /\ Idle
    /\ input \in ScatterInputs
    /\ output = NoOutput

ExtractScatter ==
    /\ input.fn = "extract_scatter_plot_data"
    /\ ~output.done
    /\ output' = [done |-> TRUE, raised |-> FALSE,
                  elements |-> extract_scatter_plot_data(input.scatters)]
    /\ UNCHANGED <<idle_vars, input>>

NextScatter == ExtractScatter

SpecScatter == InitScatter /\ [][NextScatter]_vars

----------------------------------------------------------------------------
(* Properties of extract_scatter_plot_data (SpecScatter) *)

ScatterExtracted == output.done /\ input.fn = "extract_scatter_plot_data"

(* a coordinate that is present and finite *)
FiniteCoordinate(x) == x # JNone /\ x.k = "float" /\ x.c = "fin"
FinitePoints(offsets) ==
    LET kept == SelectSeq(offsets, LAMBDA q : FiniteCoordinate(q[1])
                                              /\ FiniteCoordinate(q[2]))
    IN  [i \in 1..Len(kept) |-> JList(kept[i])]

(* C19: every point with a missing or non-finite (NaN or infinite)          *)
(* coordinate is dropped and all other points are kept in their order; a    *)
(* PointCloud left without points gives no element.                         *)
C19_OnlyFinitePointsKept ==
    ScatterExtracted =>
        LET giving == SelectSeq(input.scatters,
                                LAMBDA c : FinitePoints(c.offsets) # <<>>)
        IN  /\ Len(output.elements) = Len(giving)
            /\ \A i \in 1..Len(giving) :
                  Get(output.elements[i], "points") = JList(FinitePoints(giving[i].offsets))

(* the collections that gave an element, in order *)
Contributing == SelectSeq(input.scatters, LAMBDA c : valid_points(c.offsets) # <<>>)

(* C20: a colors field has as many entries as points: a longer colour array *)
(* is cut to that length, a shorter one is filled up with 0.0; there is no  *)
(* colors field when the PointCloud has no colour array.                    *)
C20_ColorsMatchPoints ==
    ScatterExtracted =>
        /\ Len(output.elements) = Len(Contributing)
        /\ \A i \in 1..Len(output.elements) :
              LET el == output.elements[i]
                  n == Len(Get(el, "points").items)
                  values == Contributing[i].array.values
              IN  /\ ~Contributing[i].array.set => ~Has(el, "colors")
                  /\ Has(el, "colors") =>
                        /\ Len(Get(el, "colors").items) = n
                        /\ \A j \in 1..n :
                              Get(el, "colors").items[j] =
                                 IF j <= Len(values) THEN color_value(values[j])
                                 ELSE JFin(0)
                  /\ Len(values) > 0 => Has(el, "colors")

(* of two points one was kept, and a colour array of three values was cut   *)
(* to one colour                                                            *)
C20_ColorsCutToThePoints ==
    /\ ScatterExtracted
    /\ Len(output.elements) = 1
    /\ Len(input.scatters[Len(input.scatters)].offsets) = 2
    /\ Len(Get(output.elements[1], "points").items) = 1
    /\ Len(Contributing[1].array.values) = 3
    /\ Has(output.elements[1], "colors")
    /\ Len(Get(output.elements[1], "colors").items) = 1

----------------------------------------------------------------------------
(* More properties of extract_box_plot_data (SpecBox) *)

(* the lines boxplot drew for box i as the given role, in order *)
OwnLines(i, role) ==
    SelectSeq(input.lines, LAMBDA l : l.box = i - 1 /\ l.role = role)
OwnYs(i, role) ==
    UNION {SeqRange(OwnLines(i, role)[k].ydata) : k \in 1..Len(OwnLines(i, role))}
SetMin(S) == CHOOSE m \in S : \A v \in S : m <= v
SetMax(S) == CHOOSE m \in S : \A v \in S : m >= v
Midpoint(a, b) == (a + b) \div 2

(* C22: for a box patch with fewer than 5 distinct y-coordinates, min and   *)
(* max are the y-extrema of the box's own pair of whisker lines, median is  *)
(* the mean of the y-samples of its own median line, first_quartile is the  *)
(* midpoint of min and median and third_quartile that of median and max.    *)
C22_FallbackFromOwnLines ==
    (BoxesExtracted /\ ~output.raised) =>
        \A i \in 1..Len(input.boxes) :
           ( /\ Cardinality(DistinctY(i)) < 5
             /\ YieldsElement(i)
             /\ Len(OwnLines(i, "whisker")) = 2
             /\ OwnYs(i, "whisker") # {}
             /\ Len(OwnLines(i, "median")) = 1
             /\ OwnYs(i, "median") # {} )
           => LET el == output.elements[ElementIndex(i)]
                  med == SeqSum(OwnLines(i, "median")[1].ydata)
                            \div Len(OwnLines(i, "median")[1].ydata)
              IN  /\ el.min = SetMin(OwnYs(i, "whisker"))
                  /\ el.max = SetMax(OwnYs(i, "whisker"))
                  /\ el.median = med
                  /\ el.first_quartile = Midpoint(el.min, med)
                  /\ el.third_quartile = Midpoint(med, el.max)

(* C23: the outliers of a box element are the y-samples of the first        *)
(* marker-only line with data that belongs to that box, and empty when it   *)
(* has none: the outliers of one box never show up in the element of        *)
(* another.                                                                 *)
C23_OutliersOfTheOwnBox ==
    (BoxesExtracted /\ ~output.raised) =>
        \A i \in 1..Len(input.boxes) :
           YieldsElement(i) =>
              LET own == SelectSeq(OwnLines(i, "flier"), LAMBDA l : l.ydata # <<>>)
              IN  output.elements[ElementIndex(i)].outliers =
                     IF own = <<>> THEN <<>> ELSE own[1].ydata

(* C28: every box element, from the path or from the whisker and median    *)
(* lines, with or without a median line, has                                *)
(* min <= first_quartile <= median <= third_quartile <= max.                *)
C28_FiveNumbersOrdered ==
    (BoxesExtracted /\ ~output.raised) =>
        \A k \in 1..Len(output.elements) :
           /\ output.elements[k].min <= output.elements[k].first_quartile
           /\ output.elements[k].first_quartile <= output.elements[k].median
           /\ output.elements[k].median <= output.elements[k].third_quartile
           /\ output.elements[k].third_quartile <= output.elements[k].max

----------------------------------------------------------------------------
(* More properties of extract_scatter_plot_data (SpecScatter) *)

(* the position among the offsets of the i-th point that was kept *)
SourceIndex(offsets, i) ==
    CHOOSE j \in 1..Len(offsets) :
        /\ valid_point(offsets[j])
        /\ Cardinality({m \in 1..j : valid_point(offsets[m])}) = i

(* C27: in an element with colors, colors[i] is the colour-array value of   *)
(* the source point of points[i], also when points of the PointCloud were   *)
(* dropped for a missing or NaN coordinate.                                 *)
C27_ColorsFollowTheirPoints ==
    ScatterExtracted =>
        \A e \in 1..Len(output.elements) :
           Has(output.elements[e], "colors") =>
              \A i \in 1..Len(Get(output.elements[e], "points").items) :
                 LET j == SourceIndex(Contributing[e].offsets, i)
                     values == Contributing[e].array.values
                 IN  j <= Len(values) =>
                        Get(output.elements[e], "colors").items[i] = color_value(values[j])

----------------------------------------------------------------------------
(* More properties of the interceptor (Spec) *)

(* C25: when an invocation of the hook finishes, an artifact has been       *)
(* written for every figure that was open at the invocation, in this        *)
(* invocation or an earlier one, also for a figure created after a          *)
(* processed figure was closed and given that figure's number.              *)
C25_EveryOpenFigureEmitted ==
    call.kind = "returned" => call.entry_open \cap unseen = {}

(* C26: processing leaves the set of open figures as it was: no temporary   *)
(* canvas of the pipeline is open after an invocation of the hook.          *)
C26_OpenFiguresUnchanged ==
    call.kind # "none" => open_figs = call.entry_open

----------------------------------------------------------------------------
(* extract_pie_chart_data, lines 329-362 (SpecPie) *)

MaxWedges == 2

(* a Wedge child: theta1, theta2 in degrees and r *)
Wedge(theta1, theta2, r) == [theta1 |-> theta1, theta2 |-> theta2, r |-> r]
WedgeMenu == {Wedge(0, 90, 1), Wedge(90, 360, 1), Wedge(0, 360, 1), Wedge(0, 180, 2)}

(* The Text children of an axes that ax.pie() drew on, in get_children()    *)
(* order: per wedge its label text (empty without labels) and, with         *)
(* autopct, its percent text; then the title and the left and right titles. *)
SliceNames == <<"A", "B", "C", "D">>
slice_text(i, style) ==
    IF style = "none" THEN ""
    ELSE IF style = "plain" THEN SliceNames[i]
    ELSE "Text(0, 0, '" \o SliceNames[i] \o "')"
percent_text(w) == ToString(((w.theta2 - w.theta1) * 100) \div 360) \o "%"
pie_texts(wedges, style, autopct, title) ==
    (IF autopct
     THEN [k \in 1..(2 * Len(wedges)) |->
              IF k % 2 = 1 THEN slice_text((k + 1) \div 2, style)
              ELSE percent_text(wedges[k \div 2])]
     ELSE [k \in 1..Len(wedges) |-> slice_text(k, style)])
    \o <<title, "", "">>

PieInputs ==
    {[fn |-> "extract_pie_chart_data", wedges |-> w, style |-> st, autopct |-> a,
      texts |-> pie_texts(w, st, a, t)] :
        w \in SeqsUpTo(WedgeMenu, MaxWedges), st \in {"none", "plain", "repr"},
        a \in BOOLEAN, t \in {"", "Sales"}}

(* lines 338-339: the Text children whose text is not empty *)
texts_of(texts) == SelectSeq(texts, LAMBDA t : t # "")

(* lines 343-352: the idx-th text, else a generated name; a text that      *)
(* reads like the repr of a Text object is replaced by its quoted part      *)
slice_label(idx) == "Slice " \o ToString(idx + 1)
pie_label(texts, idx) ==
    IF idx < Len(texts)
    THEN IF startswith(texts[idx + 1], "Text(") /\ quoted_search(texts[idx + 1]).found
         THEN quoted_search(texts[idx + 1]).group
         ELSE texts[idx + 1]
    ELSE slice_label(idx)

(* lines 354-358 *)
pie_element(wedge, label) ==
    [label |-> label, angle |-> wedge.theta2 - wedge.theta1, radius |-> wedge.r]

extract_pie_chart_data(wedges, texts) ==
    [i \in 1..Len(wedges) |-> pie_element(wedges[i], pie_label(texts_of(texts), i - 1))]

InitPie ==
    /\ Idle
    /\ input \in PieInputs
    /\ output = NoOutput

ExtractPie ==
    /\ input.fn = "extract_pie_chart_data"
    /\ ~output.done
    /\ output' = [done |-> TRUE, raised |-> FALSE,
                  elements |-> extract_pie_chart_data(input.wedges, input.texts)]
    /\ UNCHANGED <<idle_vars, input>>

NextPie == ExtractPie

SpecPie == InitPie /\ [][NextPie]_vars

----------------------------------------------------------------------------
(* Properties of extract_pie_chart_data (SpecPie) *)

PieExtracted == output.done /\ input.fn = "extract_pie_chart_data"

(* the text labels of the subplot with the last 3 trimmed *)
TrimmedLabels(texts) == SubSeq(texts, 1, Len(texts) - 3)

(* C21: extract_pie_chart_data yields one element per wedge with angle      *)
(* theta2 - theta1; with the last 3 text labels trimmed, if twice as many   *)
(* labels as wedges remain, wedge i gets label 2i as its label and label    *)
(* 2i+1 as its percent annotation, and otherwise it gets the i-th label     *)
(* and no percent annotation.                                               *)
C21_PieLabelsPaired ==
    PieExtracted =>
        LET labels == TrimmedLabels(input.texts)
            n == Len(input.wedges)
            els == output.elements
        IN  /\ Len(els) = n
            /\ \A i \in 1..n :
                /\ els[i].angle = input.wedges[i].theta2 - input.wedges[i].theta1
                /\ IF Len(labels) = 2 * n
                   THEN /\ els[i].label = labels[2 * i - 1]
                        /\ "percent_label" \in DOMAIN els[i]
                        /\ els[i].percent_label = labels[2 * i]
                   ELSE /\ i <= Len(labels) => els[i].label = labels[i]
                        /\ "percent_label" \notin DOMAIN els[i]

----------------------------------------------------------------------------
(* daytona_sdk/sandbox.py: Sandbox.start, lines 315-336, and               *)
(* Sandbox.wait_for_sandbox_start, lines 376-400 (SpecStart)               *)

MaxPolls == 3        \* get_workspace calls of one wait

(* what provider_metadata.get('state', '') can read in a poll *)
SandboxStates == {"", "creating", "starting", "stopped", "started", "error"}

(* input: the method called.  output: the thread inside it:                *)
(*   pc        where it stands: "request", "test", "poll", "sleep",         *)
(*             "returned", "raised"                                         *)
(*   state     the local variable state, "None" before the first poll      *)
(*   polls     the states the get_workspace calls read, in order           *)
(*   requests  start_workspace calls made                                  *)
(*   raised    the exception that ended the call                           *)
StartInputs == {[fn |-> "Sandbox.start"], [fn |-> "Sandbox.wait_for_sandbox_start"]}

Waiting(pc) ==
    [done |-> FALSE, pc |-> pc, state |-> "None", polls |-> <<>>, requests |-> 0,
     raised |-> "none"]

InitStart ==
    /\ Idle
    /\ input \in StartInputs
    /\ output = Waiting(IF input.fn = "Sandbox.start" THEN "request" ELSE "test")

(* line 335: the start request, which can fail; line 336 enters the wait *)
start_workspace(o, ok) ==
    IF ok THEN [o EXCEPT !.requests = @ + 1, !.pc = "test"]
    ELSE [o EXCEPT !.requests = @ + 1, !.pc = "raised", !.done = TRUE,
                   !.raised = "ApiException"]

StartWorkspace ==
    /\ input.fn = "Sandbox.start"
    /\ output.pc = "request"
    /\ \E ok \in BOOLEAN : output' = start_workspace(output, ok)
    /\ UNCHANGED <<idle_vars, input>>

(* the loop also ends when the sandbox is seen stopped *)
while_test_not_running(o) ==
    IF o.state \notin {"started", "stopped"} THEN [o EXCEPT !.pc = "poll"]
    ELSE [o EXCEPT !.pc = "returned", !.done = TRUE]

(* line 390: the test of the while loop *)
while_test(o) ==
    IF o.state # "started" THEN [o EXCEPT !.pc = "poll"]
    ELSE [o EXCEPT !.pc = "returned", !.done = TRUE]

WhileTest ==
    /\ output.pc = "test"
    /\ output' = while_test(output)
    /\ UNCHANGED <<idle_vars, input>>

(* lines 391-397: one poll that read state s *)
get_workspace(o, s) ==
    IF s = "error"
    THEN [o EXCEPT !.state = s, !.polls = Append(@, s), !.pc = "raised",
                   !.done = TRUE, !.raised = "DaytonaError"]
    ELSE [o EXCEPT !.state = s, !.polls = Append(@, s), !.pc = "sleep"]

GetWorkspace ==
    /\ output.pc = "poll"
    /\ Len(output.polls) < MaxPolls
    /\ \E s \in SandboxStates : output' = get_workspace(output, s)
    /\ UNCHANGED <<idle_vars, input>>

(* lines 391-392: the request or the parse of its response fails *)
GetWorkspaceFails ==
    /\ output.pc = "poll"
    /\ output' = [output EXCEPT !.pc = "raised", !.done = TRUE,
                                !.raised = "ApiException"]
    /\ UNCHANGED <<idle_vars, input>>

(* line 399 *)
Sleep ==
    /\ output.pc = "sleep"
    /\ output' = [output EXCEPT !.pc = "test"]
    /\ UNCHANGED <<idle_vars, input>>

NextStart ==
    \/ StartWorkspace
    \/ WhileTest
    \/ GetWorkspace
    \/ GetWorkspaceFails
    \/ Sleep

SpecStart == InitStart /\ [][NextStart]_vars

(* The thread that waits is scheduled and time.sleep(0.1) returns. *)
SpecStartFair == SpecStart /\ WF_vars(WhileTest) /\ WF_vars(Sleep)

----------------------------------------------------------------------------
(* Properties of Sandbox.start and wait_for_sandbox_start (SpecStartFair) *)

InStart == input.fn \in {"Sandbox.start", "Sandbox.wait_for_sandbox_start"}
Observed(s) == \E i \in 1..Len(output.polls) : output.polls[i] = s

(* the start request precedes the first poll of Sandbox.start *)
RequestBeforePoll ==
    (input.fn = "Sandbox.start" /\ output.polls # <<>>) => output.requests = 1

(* the wait returns only after a poll that observed started *)
ReturnsOnlyStarted ==
    output.pc = "returned" =>
        output.polls # <<>> /\ output.polls[Len(output.polls)] = "started"

(* the first poll that observes error is the last one and raises *)
RaisesAtFirstError ==
    \A i \in 1..Len(output.polls) :
        output.polls[i] = "error" =>
            /\ i = Len(output.polls)
            /\ output.pc = "raised"
            /\ output.raised = "DaytonaError"

(* after a poll that observed any other state the next step is the next poll *)
KeepsPolling ==
    /\ (output.pc = "sleep" /\ output.state \notin {"started", "error"}) =>
            /\ output'.pc \in {"sleep", "test"}
            /\ output'.polls = output.polls
    /\ (output.pc = "test" /\ output.state \notin {"started", "error"}) =>
            output'.pc \in {"test", "poll"}

----------------------------------------------------------------------------
(* daytona_sdk/charts.py: ChartType and Chart, applied to the record that  *)
(* extract_and_print_figure_metadata emitted (SpecSdk)                     *)

(* lines 11-17: the values of the enum, the set in the original spelling   *)
(* below and one with two members in camel case                            *)
ChartType_camel_case ==
    {"line", "scatter", "bar", "pie", "boxAndWhisker", "compositeChart", "unknown"}

ChartType ==
    {"line", "scatter", "bar", "pie", "box_and_whisker", "composite_chart", "unknown"}

(* kwargs.get(key, default) *)
kwargs_get(kwargs, key, default) == IF Has(kwargs, key) THEN Get(kwargs, key) ELSE default

(* lines 26-43: what the declared type of a field accepts, and the value   *)
(* the model keeps: Optional[str], Optional[List[str]] and                  *)
(* Optional[List[Union[str, float]]], where an int becomes a float          *)
accepts_str(v) == v.k \in {"none", "str"}
accepts_str_list(v) ==
    v.k = "none" \/ (v.k = "list" /\ \A i \in 1..Len(v.items) : v.items[i].k = "str")
accepts_ticks(v) ==
    v.k = "none" \/ (v.k = "list" /\ \A i \in 1..Len(v.items) :
                                        v.items[i].k \in {"str", "float", "int"})
validated_ticks(v) ==
    IF v.k = "none" THEN v
    ELSE JList([i \in 1..Len(v.items) |->
                  IF v.items[i].k = "int" THEN JFin(v.items[i].v) ELSE v.items[i]])

ChartRaised(exc) == [raised |-> exc]

(* lines 66-80: the parent constructor with the fields Chart.__init__       *)
(* passes; a declared field that is not passed keeps its default None      *)
base_model_init(kwargs, chart_type, elements) ==
    IF chart_type.k # "str" \/ chart_type.s \notin ChartType
    THEN ChartRaised("ValueError")
    ELSE IF ~ /\ accepts_str(kwargs_get(kwargs, "title", JNone))
              /\ accepts_str(kwargs_get(kwargs, "x_label", JNone))
              /\ accepts_str(kwargs_get(kwargs, "y_label", JNone))
              /\ accepts_ticks(kwargs_get(kwargs, "x_ticks", JNone))
              /\ accepts_str_list(kwargs_get(kwargs, "x_tick_labels", JNone))
              /\ accepts_str(kwargs_get(kwargs, "x_scale", JNone))
              /\ accepts_ticks(kwargs_get(kwargs, "y_ticks", JNone))
              /\ accepts_str_list(kwargs_get(kwargs, "y_tick_labels", JNone))
              /\ accepts_str(kwargs_get(kwargs, "y_scale", JNone))
              /\ accepts_str(kwargs_get(kwargs, "png", JNone))
    THEN ChartRaised("ValidationError")
    ELSE [raised |-> "none",
          metadata |-> kwargs,
          type |-> chart_type.s,
          title |-> kwargs_get(kwargs, "title", JNone),
          elements |-> elements,
          x_label |-> kwargs_get(kwargs, "x_label", JNone),
          y_label |-> kwargs_get(kwargs, "y_label", JNone),
          x_unit |-> JNone,
          y_unit |-> JNone,
          x_ticks |-> validated_ticks(kwargs_get(kwargs, "x_ticks", JNone)),
          x_tick_labels |-> kwargs_get(kwargs, "x_tick_labels", JNone),
          x_scale |-> kwargs_get(kwargs, "x_scale", JNone),
          y_ticks |-> validated_ticks(kwargs_get(kwargs, "y_ticks", JNone)),
          y_tick_labels |-> kwargs_get(kwargs, "y_tick_labels", JNone),
          y_scale |-> kwargs_get(kwargs, "y_scale", JNone),
          png |-> kwargs_get(kwargs, "png", JNone)]

(* lines 53-63: the elements are the nested Charts of a composite chart,    *)
(* else the elements of the record; a nested constructor that raises ends  *)
(* the outer one                                                            *)
nested_failure(nested) ==
    IF \E i \in 1..Len(nested) : nested[i].raised # "none"
    THEN nested[CHOOSE i \in 1..Len(nested) :
                    /\ nested[i].raised # "none"
                    /\ \A j \in 1..(i - 1) : nested[j].raised = "none"].raised
    ELSE "none"

RECURSIVE Chart_init(_)
chart_of(kwargs, chart_type, nested) ==
    IF chart_type = JStr("composite_chart")
    THEN IF nested_failure(nested) # "none" THEN ChartRaised(nested_failure(nested))
         ELSE base_model_init(kwargs, chart_type, nested)
    ELSE base_model_init(kwargs, chart_type, kwargs_get(kwargs, "elements", JNone))

nested_charts(kwargs, chart_type) ==
    IF chart_type = JStr("composite_chart")
    THEN [i \in 1..Len(kwargs_get(kwargs, "subplots", JList(<<>>)).items) |->
             Chart_init(kwargs_get(kwargs, "subplots", JList(<<>>)).items[i])]
    ELSE <<>>

chart_with_type(kwargs, chart_type) ==
    chart_of(kwargs, chart_type, nested_charts(kwargs, chart_type))

(* lines 45-80: Chart.__init__ with the record as keyword arguments *)
Chart_init(kwargs) == chart_with_type(kwargs, kwargs_get(kwargs, "type", JStr("unknown")))

InitSdk == InitMeta

(* the SDK builds a Chart from the value of the artifact that was printed *)
Construct ==
    /\ fig_out.done
    /\ Len(fig_out.printed) > 0
    /\ ~output.done
    /\ input' = [fn |-> "Chart", kwargs |-> Get(fig_out.printed[1], "value")]
    /\ output' = [done |-> TRUE, chart |-> Chart_init(Get(fig_out.printed[1], "value"))]
    /\ UNCHANGED <<idle_vars>>

NextSdk ==
    \/ Extract
    \/ Construct

SpecSdk == InitSdk /\ [][NextSdk]_vars

----------------------------------------------------------------------------
(* Properties of Chart on emitted records (SpecSdk) *)

ChartConstructed == output.done /\ input.fn = "Chart"

(* the type of a record and of each of its subplot records *)
EmittedTypes(v) ==
    {Get(v, "type")} \cup
    (IF Has(v, "subplots")
     THEN {Get(Subplots(v)[j], "type") : j \in 1..Len(Subplots(v))}
     ELSE {})

(* C29: every type string the wrapper emits, at the top level or in a       *)
(* subplot record, is a value of ChartType, so the construction of a Chart *)
(* from an emitted record never fails on the type, and for a composite     *)
(* record it yields one nested Chart per subplot entry, in order.          *)
C29_EmittedTypesAreChartTypes ==
    ChartConstructed =>
        /\ \A t \in EmittedTypes(input.kwargs) : t.k = "str" /\ t.s \in ChartType
        /\ output.chart.raised # "ValueError"
        /\ Get(input.kwargs, "type") = JStr("composite_chart") =>
            /\ output.chart.raised = "none"
            /\ Len(output.chart.elements) = Len(Subplots(input.kwargs))
            /\ \A j \in 1..Len(Subplots(input.kwargs)) :
                /\ output.chart.elements[j].raised = "none"
                /\ output.chart.elements[j].metadata = Subplots(input.kwargs)[j]
                /\ JStr(output.chart.elements[j].type)
                     = Get(Subplots(input.kwargs)[j], "type")

(* a Chart of a composite record with subplots of two different types *)
C29_Witness ==
    /\ ChartConstructed
    /\ output.chart.raised = "none"
    /\ output.chart.type = "composite_chart"
    /\ Len(output.chart.elements) >= 2
    /\ output.chart.elements[1].type = "box_and_whisker"
    /\ output.chart.elements[2].type = "line"

(* the declared fields of Chart that the claim names *)
DeclaredFields ==
    {"title", "x_label", "y_label", "x_unit", "y_unit", "x_ticks", "x_tick_labels",
     "x_scale", "y_ticks", "y_tick_labels", "y_scale", "png"}

(* equality of two values as Python compares them: 1 equals 1.0 *)
SameNumber(a, b) ==
    /\ a.k \in {"int", "float"}
    /\ b.k \in {"int", "float"}
    /\ (IF a.k = "float" THEN a.c ELSE "fin") = (IF b.k = "float" THEN b.c ELSE "fin")
    /\ a.v = b.v
SameScalar(a, b) == IF a.k \in {"int", "float"} THEN SameNumber(a, b) ELSE a = b
SameValue(a, b) ==
    IF a.k = "list" /\ b.k = "list"
    THEN /\ Len(a.items) = Len(b.items)
         /\ \A i \in 1..Len(a.items) : SameScalar(a.items[i], b.items[i])
    ELSE SameScalar(a, b)

(* C30: a Chart constructed from an emitted record carries every declared   *)
(* field of that record unchanged: for each of title, x_label, y_label,    *)
(* x_unit, y_unit, x_ticks, x_tick_labels, x_scale, y_ticks,               *)
(* y_tick_labels, y_scale and png the attribute equals the value of the    *)
(* record whenever the record has that key.                                 *)
C30_ChartCarriesEveryField ==
    (ChartConstructed /\ output.chart.raised = "none") =>
        \A f \in DeclaredFields :
            Has(input.kwargs, f) => SameValue(output.chart[f], Get(input.kwargs, f))

====
